---- MODULE Spec2Model ----
(***************************************************************************)
(* godad: one run of main() fetches one joke, avoids jokes already stored  *)
(* for the selected language, and keeps the seen jokes in an SQLite store. *)
(* The model follows src/main.go (lines 1-428): the store (tables jokes    *)
(* and metadata), the remote source as a nondeterministic responder, and   *)
(* main() as a sequence of steps, one per call the code makes.  Runs are   *)
(* executed one after the other against the same store.                    *)
(*                                                                         *)
(* Strings that the code inspects character by character (the markdown     *)
(* document, a joke text) are sequences of one-character strings.          *)
(***************************************************************************)
EXTENDS Naturals, Integers, Sequences, FiniteSets, TLC

\* ------------------------------------------------------------ bounds
\* Number of runs of main() in one behaviour.
MaxRuns == 3
\* Last value of the clock (in days).
MaxTime == 8
\* Longest markdown document handed to extractJokesFromMarkdown on its own.
MaxDocLen == 7
\* German jokes in the pool of a rotation
MaxPool == 3
\* calls of getFreshJoke in a row on one pool
MaxCalls == 7
\* records in a store that is handed to one acquisition
MaxRows == 3

\* --------------------------------------------------- program constants
enAPIURL == "https://icanhazdadjoke.com/"
deAPIURL == "https://raw.githubusercontent.com/derphilipp/Flachwitze/main/README.md"

\* getFreshJoke: maxRetries := 5
\* (variant: one attempt more)
maxRetries_plus_one == 5 + 1
maxRetries == 5

\* syncGermanJokesIfNeeded: syncInterval = 7 * 24 * time.Hour, in days
syncInterval == 7

\* values of the --lang flag: the default and German
Languages == {"en", "de"}

\* ------------------------------------------------------------ strings
Marker == <<"-", " ">>

\* strings.HasPrefix(s, prefix)
HasPrefix(s, prefix) ==
    /\ Len(s) >= Len(prefix)
    /\ SubSeq(s, 1, Len(prefix)) = prefix

\* strings.TrimPrefix(s, prefix)
\* (variant: the spaces after the prefix are trimmed as well)
TrimPrefix_and_spaces(s, prefix) ==
    LET t == IF HasPrefix(s, prefix) THEN SubSeq(s, Len(prefix) + 1, Len(s)) ELSE s
        solid == {k \in 1..Len(t) : t[k] # " "}
    IN  IF solid = {} THEN <<>>
        ELSE SubSeq(t, CHOOSE k \in solid : \A m \in solid : k <= m, Len(t))
TrimPrefix(s, prefix) ==
    IF HasPrefix(s, prefix) THEN SubSeq(s, Len(prefix) + 1, Len(s)) ELSE s

\* strings.Split(s, "\n"): the pieces between the newlines, at least one piece
RECURSIVE SplitLines(_)
SplitLines(s) ==
    LET nl == {k \in 1..Len(s) : s[k] = "\n"}
    IN  IF nl = {} THEN <<s>>
        ELSE LET k == CHOOSE x \in nl : \A y \in nl : x <= y
             IN  <<SubSeq(s, 1, k - 1)>> \o SplitLines(SubSeq(s, k + 1, Len(s)))

\* extractJokesFromMarkdown: the lines that begin with "- ", marker removed
extractJokesFromMarkdown(markdown) ==
    LET lines == SplitLines(markdown)
        acc[k \in 0..Len(lines)] ==
            IF k = 0 THEN <<>>
            ELSE IF HasPrefix(lines[k], Marker)
                 THEN Append(acc[k - 1], TrimPrefix(lines[k], Marker))
                 ELSE acc[k - 1]
    IN  acc[Len(lines)]

\* ------------------------------------------------------ remote source
\* Joke texts the remote sources hand out.
TextA == <<"a">>
TextB == <<"b">>
Texts == {TextA, TextB}

\* Markdown documents: two jokes around an ordinary line; no marker line
\* ("-a" lacks the space); the same joke on two lines; a bare marker.
DocAB    == <<"#", "\n", "-", " ", "a", "\n", "x", "\n", "-", " ", "b">>
DocNone  == <<"#", "\n", "-", "a">>
DocDup   == <<"-", " ", "a", "\n", "-", " ", "a">>
DocBlank == <<"-", " ">>
Docs == {DocAB, DocNone, DocDup, DocBlank}

\* A response body is either the text of a JSON value or a plain document.
\* A JSON body that is cut short is not well formed; a well-formed object
\* may lack the "joke" field.
JSONBodies ==
    {[kind |-> "json", wellformed |-> TRUE, hasJoke |-> TRUE, joke |-> t] : t \in Texts}
    \cup {[kind |-> "json", wellformed |-> TRUE, hasJoke |-> FALSE, joke |-> <<>>],
          [kind |-> "json", wellformed |-> FALSE, hasJoke |-> FALSE, joke |-> <<>>]}
DocBodies == {[kind |-> "doc", text |-> d] : d \in Docs \cup {<<>>}}
Bodies == JSONBodies \cup DocBodies

\* Content-Type header as its list of parameters; <<>> when absent.
ContentTypes == {<<"application/json">>, <<"application/json", "charset=utf-8">>,
                 <<"text/plain">>, <<>>}
Statuses == {200, 500}

Responses == [status : Statuses, contentType : ContentTypes, body : Bodies]

\* client.Do / io.ReadAll failing: no response reaches the caller
TransportErrors == {"error sending request", "error reading response body"}

\* strings.Contains(contentType, "application/json")
\* (variant: the content type is "application/json" itself)
IsJSONContentType_exact(contentType) == contentType = <<"application/json">>
IsJSONContentType(contentType) ==
    \E k \in 1..Len(contentType) : contentType[k] = "application/json"

\* json.Unmarshal(body, &responseObject): an absent field keeps the zero value
jsonUnmarshal(body) ==
    IF body.kind = "json" /\ body.wellformed
    THEN [err |-> "nil", Joke |-> IF body.hasJoke THEN body.joke ELSE <<>>]
    ELSE [err |-> "error parsing JSON", Joke |-> <<>>]

\* string(body): a JSON text is one line that starts with a brace
bodyString(body) ==
    IF body.kind = "doc" THEN body.text ELSE <<"{", "}">>

\* getJoke from the response on: the outcome for a response and, for a
\* document, the index randInt draws.  status is part of the response and
\* is not read.
\* (variant: a status other than 200 is an error)
getJoke_checks_status(resp, n) ==
    IF resp.status # 200 THEN [err |-> "unexpected status", joke |-> <<>>]
    ELSE IF IsJSONContentType(resp.contentType)
    THEN LET r == jsonUnmarshal(resp.body) IN [err |-> r.err, joke |-> r.Joke]
    ELSE LET js == extractJokesFromMarkdown(bodyString(resp.body))
         IN  IF Len(js) = 0 THEN [err |-> "no jokes found in markdown content", joke |-> <<>>]
             ELSE [err |-> "nil", joke |-> js[n + 1]]
getJokeResult(resp, n) ==
    IF IsJSONContentType(resp.contentType)
    THEN LET r == jsonUnmarshal(resp.body) IN [err |-> r.err, joke |-> r.Joke]
    ELSE LET js == extractJokesFromMarkdown(bodyString(resp.body))
         IN  IF Len(js) = 0 THEN [err |-> "no jokes found in markdown content", joke |-> <<>>]
             ELSE [err |-> "nil", joke |-> js[n + 1]]

\* ------------------------------------------------------------- store
\* SELECT COUNT(*) FROM jokes WHERE joke = ? AND language = ?
\* (variants: the count is always 0; only shown records are counted; the
\* records of every language are counted)
CountJokes_never(js, text, lang) == 0
CountJokes_shown_only(js, text, lang) ==
    Cardinality({k \in DOMAIN js :
                    js[k].joke = text /\ js[k].language = lang /\ js[k].shown})
CountJokes_any_language(js, text, lang) ==
    Cardinality({k \in DOMAIN js : js[k].joke = text})
CountJokes(js, text, lang) ==
    Cardinality({k \in DOMAIN js : js[k].joke = text /\ js[k].language = lang})

\* INSERT INTO jokes (joke, language, shown): id INTEGER PRIMARY KEY is the
\* next row id; no row is ever deleted.
InsertJoke(js, text, lang, shown) ==
    Append(js, [id |-> Len(js) + 1, joke |-> text, language |-> lang, shown |-> shown])

\* getFreshJoke line 206: VALUES (?, ?, 1)
\* (variants: VALUES (?, ?, 0); the INSERT skips a text that has a record)
InsertFresh_unshown(js, text, lang) == InsertJoke(js, text, lang, FALSE)
InsertFresh_if_absent(js, text, lang) ==
    IF \E k \in DOMAIN js : js[k].joke = text /\ js[k].language = lang
    THEN js ELSE InsertJoke(js, text, lang, TRUE)
InsertFresh(js, text, lang) == InsertJoke(js, text, lang, TRUE)

\* Rows of SELECT id, joke FROM jokes WHERE language = 'de' AND shown = 0
\* (variants: without the shown condition; with shown = 1; without ORDER BY
\* RANDOM(), the first such row only)
UnshownGerman_any(js) == {k \in DOMAIN js : js[k].language = "de"}
UnshownGerman_shown(js) == {k \in DOMAIN js : js[k].language = "de" /\ js[k].shown}
UnshownGerman_first(js) ==
    {k \in DOMAIN js :
        /\ js[k].language = "de" /\ ~js[k].shown
        /\ \A m \in 1..(k - 1) : ~(js[m].language = "de" /\ ~js[m].shown)}
UnshownGerman(js) == {k \in DOMAIN js : js[k].language = "de" /\ ~js[k].shown}

\* UPDATE jokes SET shown = 0 WHERE language = 'de'
\* (variants: the UPDATE changes nothing; without the WHERE clause; the rows
\* are deleted instead)
ResetShown_noop(js) == js
ResetShown_all(js) == [k \in DOMAIN js |-> [js[k] EXCEPT !.shown = FALSE]]
ResetShown_delete(js) == SelectSeq(js, LAMBDA r : r.language # "de")
ResetShown(js) ==
    [k \in DOMAIN js |->
        IF js[k].language = "de" THEN [js[k] EXCEPT !.shown = FALSE] ELSE js[k]]

\* UPDATE jokes SET shown = 1 WHERE id = ?
\* (variant: the UPDATE changes nothing)
MarkShown_noop(js, rowid) == js
MarkShown(js, rowid) ==
    [k \in DOMAIN js |->
        IF js[k].id = rowid THEN [js[k] EXCEPT !.shown = TRUE] ELSE js[k]]

\* Rows of SELECT joke FROM jokes WHERE language = ?
\* (variant: without the language condition)
RandomPool_any_language(js, lang) == DOMAIN js
RandomPool(js, lang) == {k \in DOMAIN js : js[k].language = lang}

\* time.Now().Format(time.RFC3339) and time.Parse(time.RFC3339, s)
FormatRFC3339(t) == [layout |-> "RFC3339", day |-> t]
ParseRFC3339(s) ==
    IF s.layout = "RFC3339" THEN [err |-> "nil", t |-> s.day]
    ELSE [err |-> "parse", t |-> 0]

SyncKey == "german_jokes_last_sync"

\* ------------------------------------------------------------- state
VARIABLES
    jokes,      \* table jokes, in insertion order: [id, joke, language, shown]
    metadata,   \* table metadata: set of rows [key, value]
    now,        \* the clock, in days
    runs,       \* runs of main() started so far
    language,   \* the --lang flag of the current run
    apiURL,     \* the active endpoint
    pc,         \* where main() stands
    i,          \* getFreshJoke: loop counter
    joke,       \* getFreshJoke / getUnshownGermanJoke: local joke
    id,         \* getUnshownGermanJoke: local id
    err,        \* error returned by getFreshJoke; NotReturned before it returns
    syncErr,    \* main line 109: error returned by syncGermanJokesIfNeeded
    mainJoke,   \* main: the joke to print
    stdout,     \* lines written to standard output by the current run
    exitCode,   \* exit status of the current run; NoExit while it runs
    \* observations of the current call, kept for the properties
    resp,       \* the response getJoke has just read
    draw,       \* the index randInt has just drawn
    fetches,    \* getJoke calls made by this getFreshJoke call
    before,     \* texts fetched by the earlier attempts of this call
    pre,        \* table jokes when getFreshJoke was entered
    queries,    \* store statements of getUnshownGermanJoke, in order
    fault,      \* the first failure met by this getFreshJoke call
    fbErr,      \* error returned by getRandomJokeFromDB
    fbPool,     \* texts getRandomJokeFromDB could choose from
    \* observations across runs
    last,       \* the getFreshJoke call of the current run, once returned,
                \* when it was one whose only fetched text was new to the store
    prev,       \* the same of the run before
    outs,       \* the latest calls in a row for one language: what each
                \* returned and what the store held when it began
    sync,       \* what the sync pass of the current run met and did
    held,       \* the lock and the endpoint as getJoke found them when it
                \* read apiURL
    \* a function called on its own, and what runs beside the program
    arg,        \* the argument of the function called on its own
    ret,        \* what that function returned
    peer,       \* the other thread of control: a second run on the same
                \* store, or a concurrent setAPIURL call
    mu,         \* sync.RWMutex mu: the writer and the number of readers
    \* the database handle and the schema of the database file
    db,         \* *sql.DB db: "nil" before sql.Open, then "open" or "closed"
    schema,     \* the tables of the database file, each with its columns
    setup       \* what the statements of the store set-up returned, when
                \* main is followed through it statement by statement

storeVars == <<jokes, metadata>>
cfgVars == <<language, apiURL>>
callVars == <<i, joke, id, err>>
mainVars == <<syncErr, mainJoke, stdout, exitCode>>
obsVars == <<resp, draw, fetches, before, pre, queries, fault, fbErr, fbPool>>
histVars == <<last, prev, outs>>
sideVars == <<arg, ret, peer, mu>>
setupVars == <<db, schema, setup>>
vars == <<jokes, metadata, now, runs, language, apiURL, pc, i, joke, id, err,
          syncErr, mainJoke, stdout, exitCode, resp, draw, fetches, before, pre,
          queries, fault, fbErr, fbPool, last, prev, outs, sync, held, arg, ret,
          peer, mu, db, schema, setup>>

\* An error value: its message, the error it wraps, the number in it
Error(msg, cause) == [msg |-> msg, cause |-> cause, n |-> 0]
Nil == Error("nil", "nil")
NotReturned == Error("not returned", "nil")
\* The exit status of a run: none while it runs, then the code it exited with
NoExit == <<>>
Exit(code) == <<code>>
NoResp == [status |-> 0, contentType |-> <<>>, body |-> [kind |-> "none"]]
NoPrev == [language |-> "", ok |-> FALSE, joke |-> <<>>, fresh |-> FALSE]

\* fmt.Errorf("could not find a new joke after %d attempts", maxRetries)
Exhausted ==
    [msg |-> "could not find a new joke after %d attempts", cause |-> "duplicates",
     n |-> maxRetries]
NoRows == "sql: no rows in result set"
StoreFailure == "store failure"
\* outcome of one store statement: it runs, or the driver reports an error
StoreOutcomes == {"ok", "error"}

\* No sync pass has run; getJoke has not read the endpoint; no function is
\* called on its own; nothing runs beside the program.
NoSync == [read |-> "none", fetch |-> "none"]
NoRead == [read |-> FALSE]
NoArg == <<>>
NoPeer == [pc |-> "none"]
\* sync.RWMutex: free
Unlocked == [writer |-> FALSE, readers |-> 0]

\* ------------------------------------------------------------ schema
\* A database file without tables; the columns of the two tables (main
\* lines 68-84); the columns table jokes had before there were languages.
NoTables == [t \in {} |-> <<>>]
JokesColumns == <<"id", "joke", "language", "shown", "created_at">>
MetadataColumns == <<"key", "value", "updated_at">>
LegacyColumns == <<"id", "joke", "created_at">>
CurrentSchema == [t \in {"jokes", "metadata"} |->
                    IF t = "jokes" THEN JokesColumns ELSE MetadataColumns]

\* The set-up of the current run has not been followed.
NoSetup == <<>>

\* The store as the functions find it when they are called on their own:
\* open, with both tables.
StoreReady == db = "open" /\ schema = CurrentSchema /\ setup = NoSetup

\* CREATE TABLE IF NOT EXISTS name (cols): the error and the tables after it
\* (variant: CREATE TABLE, without IF NOT EXISTS)
CreateTable_plain(tables, name, cols) ==
    IF name \in DOMAIN tables
    THEN [err |-> "table already exists", schema |-> tables]
    ELSE [err |-> "nil",
          schema |-> [t \in DOMAIN tables \cup {name} |->
                         IF t = name THEN cols ELSE tables[t]]]
CreateTable(tables, name, cols) ==
    IF name \in DOMAIN tables
    THEN [err |-> "nil", schema |-> tables]
    ELSE [err |-> "nil",
          schema |-> [t \in DOMAIN tables \cup {name} |->
                         IF t = name THEN cols ELSE tables[t]]]

HasColumn(tables, table, col) ==
    table \in DOMAIN tables /\ \E k \in DOMAIN tables[table] : tables[table][k] = col

\* ALTER TABLE table ADD COLUMN col: the error and the tables after it
AddColumn(tables, table, col) ==
    IF table \notin DOMAIN tables
    THEN [err |-> "no such table", schema |-> tables]
    ELSE IF HasColumn(tables, table, col)
    THEN [err |-> "duplicate column name", schema |-> tables]
    ELSE [err |-> "nil", schema |-> [tables EXCEPT ![table] = Append(@, col)]]

\* ADD COLUMN ... NOT NULL DEFAULT value: the rows that lack the column get
\* the default
WithDefault(js, col, value) ==
    [k \in DOMAIN js |->
        IF col \in DOMAIN js[k] THEN js[k]
        ELSE [f \in DOMAIN js[k] \cup {col} |-> IF f = col THEN value ELSE js[k][f]]]

\* db.Exec of a schema statement: the driver runs it, or reports an error
\* of its own and the tables stay as they are
Exec(outcome, result, tables) ==
    IF outcome = "ok" THEN result ELSE [err |-> StoreFailure, schema |-> tables]

\* main lines 91-96 and 100-105: strings.Contains(err.Error(), "duplicate
\* column") decides only whether a warning is logged; main goes on either way
afterMigration(e) ==
    [fatal |-> FALSE, warn |-> e # "nil" /\ e # "duplicate column name"]

\* main lines 89-105 on the rows of table jokes: a column that was added
\* brings its default
Migrated(js, old, new) ==
    LET withLanguage == IF ~HasColumn(old, "jokes", "language")
                           /\ HasColumn(new, "jokes", "language")
                        THEN WithDefault(js, "language", "en") ELSE js
    IN  IF ~HasColumn(old, "jokes", "shown") /\ HasColumn(new, "jokes", "shown")
        THEN WithDefault(withLanguage, "shown", FALSE) ELSE withLanguage

Init ==
    /\ jokes = <<>>
    /\ metadata = {}
    /\ now = 0
    /\ runs = 0
    /\ language = "en"
    /\ apiURL = ""
    /\ pc = "idle"
    /\ i = 0
    /\ joke = <<>>
    /\ id = 0
    /\ err = NotReturned
    /\ syncErr = "nil"
    /\ mainJoke = <<>>
    /\ stdout = <<>>
    /\ exitCode = NoExit
    /\ resp = NoResp
    /\ draw = 0
    /\ fetches = 0
    /\ before = {}
    /\ pre = <<>>
    /\ queries = <<>>
    /\ fault = "nil"
    /\ fbErr = "nil"
    /\ fbPool = {}
    /\ last = NoPrev
    /\ prev = NoPrev
    /\ outs = <<>>
    /\ sync = NoSync
    /\ held = NoRead
    /\ arg = NoArg /\ ret = NoArg /\ peer = NoPeer /\ mu = Unlocked
    /\ db = "nil" /\ schema = NoTables /\ setup = NoSetup

\* setAPIURL: the German endpoint for "de", the API endpoint otherwise
\* (variant: the English endpoint for "en" only)
setAPIURL_en_only(lang) == IF lang = "en" THEN enAPIURL ELSE deAPIURL
setAPIURL(lang) == IF lang = "de" THEN deAPIURL ELSE enAPIURL

LanguageRows(js, lang) == {k \in DOMAIN js : js[k].language = lang}

\* The rows of a table that hold a text for a language.
RowsWith(js, text, lang) ==
    {k \in DOMAIN js : js[k].joke = text /\ js[k].language = lang}

\* What a returned call leaves for the next run to look back on: the
\* language and the last text of the call, whether it succeeded, and whether
\* it was a call in which nothing failed, every fetch returned that one text
\* and the text had no record when the call began.
CallSummary(e, lastText, fetched, failure) ==
    [language |-> language, ok |-> e = Nil, joke |-> lastText,
     fresh |-> /\ failure = "nil"
               /\ fetched \subseteq {lastText}
               /\ RowsWith(pre, lastText, language) = {}]

\* The calls of a row that still count when the next call is made: those
\* from the earliest call on that began with more distinct jokes than calls
\* have been made since.
StillOpen(calls) ==
    LET open == {s \in DOMAIN calls :
                    calls[s].pool.distinct /\ calls[s].pool.n > Len(calls) - s + 1}
    IN  IF open = {} THEN <<>>
        ELSE SubSeq(calls, CHOOSE s \in open : \A t \in open : s <= t, Len(calls))

\* Days between two runs: none, a week, a week and a day.
Elapsed == {0, syncInterval, syncInterval + 1}

\* What can stop main before the migrations are through: reading the
\* configuration file (initConfig line 147), binding the flags (line 162),
\* the database directory (main line 52), the open (line 59), a CREATE TABLE
\* (lines 68 and 80).
StartFailures ==
    {"ReadInConfig", "BindPFlags", "MkdirAll", "sql.Open", "CREATE TABLE jokes",
     "CREATE TABLE metadata"}
\* The failures that come before defer db.Close() (line 63).
BeforeOpen == {"ReadInConfig", "BindPFlags", "MkdirAll", "sql.Open"}

\* The columns the migrations would add to table jokes.
MissingColumns(tables) ==
    {c \in {"language", "shown"} : ~HasColumn(tables, "jokes", c)}

\* main lines 68-105 in one: the tables after the statements up to the one
\* that fails, fail naming it ("nil" when none does) and failed the columns
\* whose ALTER TABLE the driver does not carry out.
SetUpStore(tables, fail, failed) ==
    LET run(c, t) == IF c \in failed THEN Exec("error", AddColumn(t, "jokes", c), t)
                     ELSE Exec("ok", AddColumn(t, "jokes", c), t)
        t1 == Exec(IF fail = "CREATE TABLE jokes" THEN "error" ELSE "ok",
                   CreateTable(tables, "jokes", JokesColumns), tables)
        t2 == Exec(IF fail = "CREATE TABLE metadata" THEN "error" ELSE "ok",
                   CreateTable(t1.schema, "metadata", MetadataColumns), t1.schema)
        t3 == run("language", t2.schema)
        t4 == run("shown", t3.schema)
    IN  IF fail \in BeforeOpen THEN [err |-> fail, schema |-> tables]
        ELSE IF t1.err # "nil" THEN [err |-> t1.err, schema |-> t1.schema]
        ELSE IF t2.err # "nil" THEN [err |-> t2.err, schema |-> t2.schema]
        ELSE [err |-> "nil", schema |-> t4.schema]

\* main lines 39-105: configuration (initConfig, with the "Using config
\* file:" line and setAPIURL), database directory, open, tables, migration.
\* A failure of initConfig or of the store set-up is fatal (log.Fatal).
StartRun ==
    /\ pc \in {"idle", "exited"}
    /\ runs < MaxRuns
    /\ runs' = runs + 1
    /\ prev' = last
    /\ last' = NoPrev
    /\ \E d \in Elapsed :
          /\ now + d <= MaxTime
          /\ now' = now + d
    /\ \E lang \in Languages, fail \in {"nil"} \cup StartFailures,
          failed \in SUBSET MissingColumns(schema) :
          LET done == SetUpStore(schema, fail, failed)
          IN  /\ language' = lang
              /\ apiURL' = IF fail \in {"ReadInConfig", "BindPFlags"} THEN apiURL
                            ELSE setAPIURL(lang)
              /\ stdout' = IF fail = "ReadInConfig" THEN <<>>
                           ELSE <<[kind |-> "config", text |-> <<>>]>>
              /\ db' = IF fail \in BeforeOpen THEN "nil" ELSE "open"
              /\ schema' = done.schema
              /\ jokes' = Migrated(jokes, schema, done.schema)
              /\ exitCode' = IF done.err = "nil" THEN NoExit ELSE Exit(1)
              /\ pc' = IF done.err # "nil" THEN "exited"
                       ELSE IF lang = "de" THEN "sync" ELSE "getFreshJoke"
    /\ i' = 0 /\ joke' = <<>> /\ id' = 0 /\ err' = NotReturned
    /\ syncErr' = "nil" /\ mainJoke' = <<>>
    /\ resp' = NoResp /\ draw' = 0 /\ fetches' = 0 /\ before' = {}
    /\ pre' = <<>> /\ queries' = <<>> /\ fault' = "nil" /\ fbErr' = "nil"
    /\ fbPool' = {}
    /\ outs' = StillOpen(outs)
    /\ metadata' = metadata
    /\ sync' = NoSync /\ held' = NoRead
    /\ setup' = NoSetup
    /\ UNCHANGED sideVars

\* --------------------------------------------------------------- sync
\* SELECT value FROM metadata WHERE key = 'german_jokes_last_sync'
MetaRows(rows, key) == {r \in rows : r.key = key}

\* INSERT OR REPLACE INTO metadata (key, value, updated_at)
SetMeta(rows, key, value) ==
    {r \in rows : r.key # key} \cup {[key |-> key, value |-> value]}

\* syncGermanJokesIfNeeded lines 341-356: no row, an unparsable value, or a
\* last sync more than syncInterval ago
\* (variant: a last sync exactly syncInterval ago counts as stale)
needsSync_at_interval(rows, t) ==
    LET found == MetaRows(rows, SyncKey)
    IN  IF found = {} THEN TRUE
        ELSE LET lastSync == ParseRFC3339((CHOOSE r \in found : TRUE).value)
             IN  IF lastSync.err # "nil" THEN TRUE
                 ELSE t - lastSync.t >= syncInterval
needsSync(rows, t) ==
    LET found == MetaRows(rows, SyncKey)
    IN  IF found = {} THEN TRUE
        ELSE LET lastSync == ParseRFC3339((CHOOSE r \in found : TRUE).value)
             IN  IF lastSync.err # "nil" THEN TRUE
                 ELSE t - lastSync.t > syncInterval

\* What happens to one extracted entry: both statements run, or the
\* existence check fails, or the insert fails.
EntryOutcomes == {"ok", "check error", "insert error"}

\* syncGermanJokes line 409: VALUES (?, 'de', 0)
\* (variant: VALUES (?, 'de', 1))
InsertSynced_shown(js, text) == InsertJoke(js, text, "de", TRUE)
InsertSynced(js, text) == InsertJoke(js, text, "de", FALSE)

\* syncGermanJokes lines 396-416: the loop over the extracted jokes, from
\* entry k on; an entry whose statement fails is skipped
\* (variant: the first failed statement ends the loop)
RECURSIVE Ingest_abort(_, _, _, _)
Ingest_abort(js, entries, outcome, k) ==
    IF k > Len(entries) \/ outcome[k] # "ok" THEN js
    ELSE IF CountJokes(js, entries[k], "de") = 0
         THEN Ingest_abort(InsertSynced(js, entries[k]), entries, outcome, k + 1)
         ELSE Ingest_abort(js, entries, outcome, k + 1)
RECURSIVE Ingest(_, _, _, _)
Ingest(js, entries, outcome, k) ==
    IF k > Len(entries) THEN js
    ELSE IF outcome[k] = "check error" THEN Ingest(js, entries, outcome, k + 1)
    ELSE IF CountJokes(js, entries[k], "de") = 0 /\ outcome[k] = "ok"
         THEN Ingest(InsertSynced(js, entries[k]), entries, outcome, k + 1)
         ELSE Ingest(js, entries, outcome, k + 1)

\* syncGermanJokes lines 385-391: what extractJokesFromMarkdown makes of
\* the bodies the download can bring
SyncExtracts == {extractJokesFromMarkdown(bodyString(b)) : b \in Bodies}

\* What a sync pass met and did: the outcome of reading the last sync time,
\* of the download ("none" when there was no download), the extracted
\* entries, what happened to each, the outcome of writing the sync time, and
\* the two tables as the pass found them.
SyncPass(read, fetch, entries, outcome, write) ==
    [read |-> read, fetch |-> fetch, entries |-> entries, outcome |-> outcome,
     write |-> write, jokes |-> jokes, metadata |-> metadata]

\* main lines 107-112 with syncGermanJokesIfNeeded and syncGermanJokes: an
\* error is logged as a warning and main goes on
SyncStep ==
    /\ pc = "sync"
    /\ pc' = "getFreshJoke"
    /\ \/ /\ syncErr' = "error checking last sync time"
          /\ sync' = SyncPass("error", "none", <<>>, <<>>, "none")
          /\ UNCHANGED storeVars
       \/ /\ ~needsSync(metadata, now)
          /\ syncErr' = "nil"
          /\ sync' = SyncPass("ok", "none", <<>>, <<>>, "none")
          /\ UNCHANGED storeVars
       \/ /\ needsSync(metadata, now)
          /\ syncErr' \in {"error downloading German jokes",
                          "error reading response body"}
          /\ sync' = SyncPass("ok", "failed", <<>>, <<>>, "none")
          /\ UNCHANGED storeVars
       \/ /\ needsSync(metadata, now)
          /\ \E entries \in SyncExtracts :
                (   IF Len(entries) = 0
                    THEN /\ syncErr' = "no jokes found in markdown"
                         /\ sync' = SyncPass("ok", "done", entries, <<>>, "none")
                         /\ UNCHANGED storeVars
                    ELSE \E outcome \in [1..Len(entries) -> EntryOutcomes],
                            write \in StoreOutcomes :
                            /\ jokes' = Ingest(jokes, entries, outcome, 1)
                            /\ sync' = SyncPass("ok", "done", entries, outcome, write)
                            /\ IF write = "ok"
                               THEN /\ metadata' = SetMeta(metadata, SyncKey,
                                                           FormatRFC3339(now))
                                    /\ syncErr' = "nil"
                               ELSE /\ metadata' = metadata
                                    /\ syncErr' = "error updating last sync time")
    /\ UNCHANGED <<now, runs, cfgVars, callVars, mainJoke, stdout, exitCode,
                   obsVars, histVars>>
    /\ UNCHANGED <<held, sideVars, setupVars>>

\* ------------------------------------------------------- getFreshJoke
\* getFreshJoke lines 183-190: "de" goes to getUnshownGermanJoke, every
\* other language to the fetch loop
\* (variant: every language goes to the fetch loop)
getFreshJokeMode_fetch(lang) == "getJoke"
getFreshJokeMode(lang) == IF lang = "de" THEN "pickUnshown" ELSE "getJoke"

\* What the store holds for a language when a call begins: how many
\* records, whether their texts are distinct, whether they carry one and
\* the same shown flag.
PoolOf(js, lang) ==
    LET rows == LanguageRows(js, lang)
    IN  [n |-> Cardinality(rows),
         distinct |-> \A k \in rows, m \in rows : js[k].joke = js[m].joke => k = m,
         uniform |-> \A k \in rows, m \in rows : js[k].shown = js[m].shown]

\* main line 115 enters getFreshJoke; the err of the sync (main line 109) is
\* out of scope by then
EnterGetFreshJoke ==
    /\ pc = "getFreshJoke"
    /\ pc' = getFreshJokeMode(language)
    /\ pre' = jokes
    /\ syncErr' = "nil"
    /\ UNCHANGED <<storeVars, now, runs, cfgVars, callVars, mainJoke, stdout,
                   exitCode, histVars, resp, draw, fetches, before, queries, fault,
                   fbErr, fbPool>>
    /\ sync' = NoSync
    /\ UNCHANGED <<held, sideVars, setupVars>>

\* A call does not count for the row of calls when a fetch or a store
\* statement failed in it or the source handed out a text that was already
\* recorded.
Excused(e, dups) == dups # {} \/ (e # Nil /\ e.cause # NoRows)

\* getFreshJoke returns (j, e) to main line 115: main keeps the joke, or
\* turns to the fallback when e is an error.  lastText is the text the call
\* handled last, dups the fetched texts it found recorded, failure the
\* failure it met.
ReturnToMain(e, j, lastText, dups, failure) ==
    /\ err' = e
    /\ pc' = IF e = Nil THEN "print" ELSE "fallback"
    /\ mainJoke' = IF e = Nil THEN j ELSE <<>>
    /\ last' = LET call == CallSummary(e, lastText, dups, failure)
               IN  IF call.fresh THEN call ELSE NoPrev
    /\ outs' = IF Excused(e, dups) THEN <<>>
               ELSE Append(IF outs # <<>> /\ outs[1].language # language
                           THEN <<>> ELSE outs,
                           [language |-> language, ok |-> e = Nil, joke |-> j,
                            pool |-> PoolOf(pre, language)])

\* rand.IntN(n)
randInt(n) == 0..(n - 1)

\* The indices randInt can draw for a response: one per extracted joke of a
\* document; a JSON response draws nothing.
Draws(r) ==
    IF IsJSONContentType(r.contentType) THEN {0}
    ELSE LET n == Len(extractJokesFromMarkdown(bodyString(r.body)))
         IN  IF n = 0 THEN {0} ELSE randInt(n)

\* What getJoke can return once a response has been read: its outcome for
\* each response and each index randInt can draw for it.
FetchOutcomes ==
    UNION {{getJokeResult(r, n) : n \in Draws(r)} : r \in Responses}

\* getJoke lines 262-266 read apiURL without taking mu.RLock.  A read that
\* falls into the write of a concurrent setAPIURL call is a data race: it
\* brings the old value, the new value or a torn one.
TornURL == "torn"
ReadAPIURL ==
    IF peer.pc = "setAPIURL: write"
    THEN {apiURL, setAPIURL(peer.lang), TornURL}
    ELSE {apiURL}

\* The lock and the value as a read of apiURL found them.
ReadUnder(lock, url) == [read |-> TRUE, mu |-> lock, url |-> url]

\* getFreshJoke lines 192-195: one getJoke call (lines 255-302)
GetJokeStep ==
    /\ pc = "getJoke"
    /\ fetches' = fetches + 1
    /\ \E url \in ReadAPIURL :
          /\ held' = ReadUnder(mu, url)
          /\ \/ /\ \E te \in TransportErrors \cup
                          (IF url = "" THEN {"no valid API URL provided"} ELSE {}) :
                      /\ fault' = te
                      /\ ReturnToMain(Error("error fetching joke from API", te),
                                      <<>>, <<>>, before, te)
                /\ resp' = NoResp
                /\ draw' = 0
                /\ joke' = <<>>
             \/ /\ url # ""
                /\ resp' = NoResp
                /\ draw' = 0
                /\ \E res \in FetchOutcomes :
                      /\ joke' = res.joke
                      /\ IF res.err = "nil"
                         THEN /\ pc' = "checkExists"
                              /\ UNCHANGED <<err, mainJoke, last, outs, fault>>
                         ELSE /\ fault' = res.err
                              /\ ReturnToMain(Error("error fetching joke from API",
                                                    res.err), <<>>, res.joke,
                                              before, res.err)
    /\ UNCHANGED <<storeVars, now, runs, cfgVars, i, id, syncErr, stdout, exitCode,
                   before, pre, queries, fbErr, fbPool, prev>>
    /\ UNCHANGED <<sync, sideVars, setupVars>>

\* getFreshJoke lines 197-215, after the COUNT statement: what the loop does
\* with its outcome, the count and the loop counter
\* (variant: a failed COUNT counts as a duplicate)
afterCheck_retry_on_error(outcome, count, n) ==
    IF outcome = "ok" /\ count = 0 THEN "insert"
    ELSE IF n + 1 < maxRetries THEN "getJoke" ELSE "exhausted"
afterCheck(outcome, count, n) ==
    IF outcome # "ok" THEN "error"
    ELSE IF count = 0 THEN "insert"
    ELSE IF n + 1 < maxRetries THEN "getJoke" ELSE "exhausted"

CheckExists ==
    /\ pc = "checkExists"
    /\ resp' = NoResp
    /\ draw' = 0
    /\ \E outcome \in StoreOutcomes :
          LET todo == afterCheck(outcome, CountJokes(jokes, joke, language), i)
          IN  /\ fault' = IF outcome = "ok" THEN fault ELSE StoreFailure
              /\ CASE todo = "error" ->
                        /\ ReturnToMain(Error("error checking joke existence",
                                              StoreFailure), <<>>, joke, before,
                                        StoreFailure)
                        /\ UNCHANGED <<i, before>>
                   [] todo = "insert" ->
                        /\ pc' = "insert"
                        /\ UNCHANGED <<i, before, err, mainJoke, last, outs>>
                   [] todo = "getJoke" ->
                        /\ pc' = "getJoke"
                        /\ i' = i + 1
                        /\ before' = before \cup {joke}
                        /\ UNCHANGED <<err, mainJoke, last, outs>>
                   [] OTHER ->
                        /\ i' = i + 1
                        /\ before' = before \cup {joke}
                        /\ ReturnToMain(Exhausted, <<>>, joke, before \cup {joke}, fault)
    /\ UNCHANGED <<storeVars, now, runs, cfgVars, joke, id, syncErr, stdout,
                   exitCode, fetches, pre, queries, fbErr, fbPool, prev>>
    /\ UNCHANGED <<sync, held, sideVars, setupVars>>

\* getFreshJoke lines 204-211
InsertStep ==
    /\ pc = "insert"
    /\ \/ /\ jokes' = InsertFresh(jokes, joke, language)
          /\ fault' = fault
          /\ ReturnToMain(Nil, joke, joke, before, fault)
       \/ /\ jokes' = jokes
          /\ fault' = StoreFailure
          /\ ReturnToMain(Error("error inserting joke", StoreFailure), <<>>,
                          joke, before, StoreFailure)
    /\ UNCHANGED <<metadata, now, runs, cfgVars, i, joke, id, syncErr, stdout,
                   exitCode, resp, draw, fetches, before, pre, queries, fbErr,
                   fbPool, prev>>
    /\ UNCHANGED <<sync, held, sideVars, setupVars>>

\* ----------------------------------------------- getUnshownGermanJoke
\* line 226: SELECT ... WHERE language = 'de' AND shown = 0 ORDER BY RANDOM()
PickUnshown ==
    /\ pc = "pickUnshown"
    /\ queries' = Append(queries, "pick")
    /\ \/ /\ fault' = StoreFailure
          /\ ReturnToMain(Error("error getting unshown joke", StoreFailure), <<>>,
                          joke, {}, StoreFailure)
          /\ UNCHANGED <<id, joke>>
       \/ /\ UnshownGerman(jokes) = {}
          /\ pc' = "resetShown"
          /\ UNCHANGED <<id, joke, err, mainJoke, last, outs, fault>>
       \/ /\ \E k \in UnshownGerman(jokes) :
                /\ id' = jokes[k].id
                /\ joke' = jokes[k].joke
          /\ pc' = "markShown"
          /\ UNCHANGED <<err, mainJoke, last, outs, fault>>
    /\ UNCHANGED <<storeVars, now, runs, cfgVars, i, syncErr, stdout, exitCode,
                   resp, draw, fetches, before, pre, fbErr, fbPool, prev>>
    /\ UNCHANGED <<sync, held, sideVars, setupVars>>

\* lines 228-234: UPDATE jokes SET shown = 0 WHERE language = 'de'
ResetStep ==
    /\ pc = "resetShown"
    /\ queries' = Append(queries, "reset")
    /\ \/ /\ jokes' = ResetShown(jokes)
          /\ pc' = "pickAgain"
          /\ UNCHANGED <<err, mainJoke, last, outs, fault>>
       \/ /\ jokes' = jokes
          /\ fault' = StoreFailure
          /\ ReturnToMain(Error("error resetting shown status", StoreFailure), <<>>,
                          joke, {}, StoreFailure)
    /\ UNCHANGED <<metadata, now, runs, cfgVars, i, joke, id, syncErr, stdout,
                   exitCode, resp, draw, fetches, before, pre, fbErr, fbPool, prev>>
    /\ UNCHANGED <<sync, held, sideVars, setupVars>>

\* lines 236-240: the same SELECT once more; any error ends the call
PickAgain ==
    /\ pc = "pickAgain"
    /\ queries' = Append(queries, "pick")
    /\ \/ /\ fault' = StoreFailure
          /\ ReturnToMain(Error("error getting joke after reset", StoreFailure), <<>>,
                          joke, {}, StoreFailure)
          /\ UNCHANGED <<id, joke>>
       \/ /\ UnshownGerman(jokes) = {}
          /\ fault' = fault
          /\ ReturnToMain(Error("error getting joke after reset", NoRows), <<>>,
                          joke, {}, fault)
          /\ UNCHANGED <<id, joke>>
       \/ /\ \E k \in UnshownGerman(jokes) :
                /\ id' = jokes[k].id
                /\ joke' = jokes[k].joke
          /\ pc' = "markShown"
          /\ UNCHANGED <<err, mainJoke, last, outs, fault>>
    /\ UNCHANGED <<storeVars, now, runs, cfgVars, i, syncErr, stdout, exitCode,
                   resp, draw, fetches, before, pre, fbErr, fbPool, prev>>
    /\ UNCHANGED <<sync, held, sideVars, setupVars>>

\* lines 245-251: UPDATE jokes SET shown = 1 WHERE id = ?
MarkStep ==
    /\ pc = "markShown"
    /\ queries' = Append(queries, "mark")
    /\ \/ /\ jokes' = MarkShown(jokes, id)
          /\ fault' = fault
          /\ ReturnToMain(Nil, joke, joke, {}, fault)
       \/ /\ jokes' = jokes
          /\ fault' = StoreFailure
          /\ ReturnToMain(Error("error marking joke as shown", StoreFailure), <<>>,
                          joke, {}, StoreFailure)
    /\ UNCHANGED <<metadata, now, runs, cfgVars, i, joke, id, syncErr, stdout,
                   exitCode, resp, draw, fetches, before, pre, fbErr, fbPool, prev>>
    /\ UNCHANGED <<sync, held, sideVars, setupVars>>

\* ------------------------------------------------------------- main
TextsOf(js, rows) == {js[k].joke : k \in rows}

\* fmt.Println(joke), main line 128
\* (variant: the line is written twice)
Println_twice(out, text) ==
    out \o <<[kind |-> "joke", text |-> text], [kind |-> "joke", text |-> text]>>
Println(out, text) == Append(out, [kind |-> "joke", text |-> text])

\* Once main has looked at what getFreshJoke returned, the locals of the
\* call are gone.
DropLocals ==
    /\ i' = 0 /\ joke' = <<>> /\ id' = 0
    /\ fetches' = 0 /\ before' = {} /\ pre' = <<>> /\ queries' = <<>>
    /\ fault' = "nil"

\* main lines 116-125 with getRandomJokeFromDB (lines 323-331): a random
\* record of the language; log.Fatal when the query fails or finds no row
Fallback ==
    /\ pc = "fallback"
    /\ fbPool' = TextsOf(jokes, RandomPool(jokes, language))
    /\ resp' = NoResp
    /\ draw' = 0
    /\ \/ /\ \E cause \in {StoreFailure} \cup
                         (IF RandomPool(jokes, language) = {} THEN {NoRows} ELSE {}) :
                fbErr' = cause
          /\ exitCode' = Exit(1)
          /\ pc' = "exited"
          /\ mainJoke' = mainJoke
       \/ /\ \E k \in RandomPool(jokes, language) : mainJoke' = jokes[k].joke
          /\ fbErr' = "nil"
          /\ exitCode' = exitCode
          /\ pc' = "print"
    /\ DropLocals
    /\ UNCHANGED <<storeVars, now, runs, cfgVars, err, syncErr, stdout, histVars>>
    /\ UNCHANGED <<sync, held, sideVars, setupVars>>

\* main lines 127-129: print the joke and return; the return runs the
\* deferred db.Close() of line 63
PrintJoke ==
    /\ pc = "print"
    /\ stdout' = Println(stdout, mainJoke)
    /\ exitCode' = Exit(0)
    /\ pc' = "exited"
    /\ db' = "closed"
    /\ resp' = NoResp
    /\ draw' = 0
    /\ DropLocals
    /\ UNCHANGED <<storeVars, now, runs, cfgVars, err, syncErr, mainJoke,
                   fbErr, fbPool, histVars>>
    /\ UNCHANGED <<sync, held, sideVars, schema, setup>>

\* ---------------------------------------------------- getJoke alone
\* getJoke called on its own, as the tests call it: the endpoint is whatever
\* was configured, the store is not touched.
InitGetJoke ==
    /\ jokes = <<>> /\ metadata = {} /\ now = 0 /\ runs = 0
    /\ language = "en"
    /\ apiURL \in {"", enAPIURL, deAPIURL}
    /\ pc = "getJoke: send"
    /\ i = 0 /\ joke = <<>> /\ id = 0 /\ err = NotReturned
    /\ syncErr = "nil" /\ mainJoke = <<>> /\ stdout = <<>> /\ exitCode = NoExit
    /\ resp = NoResp /\ draw = 0 /\ fetches = 0 /\ before = {} /\ pre = <<>>
    /\ queries = <<>> /\ fault = "nil" /\ fbErr = "nil" /\ fbPool = {}
    /\ last = NoPrev /\ prev = NoPrev /\ outs = <<>>
    /\ sync = NoSync /\ held = NoRead
    /\ arg = NoArg /\ ret = NoArg /\ peer = NoPeer /\ mu = Unlocked
    /\ StoreReady

\* getJoke lines 255-283: the URL check, the request, client.Do and
\* io.ReadAll.  The request either fails in transport or brings a response,
\* whose status is not looked at.
GetJokeSend ==
    /\ pc = "getJoke: send"
    /\ fetches' = fetches + 1
    /\ \E url \in ReadAPIURL :
          /\ held' = ReadUnder(mu, url)
          /\ \/ /\ \E te \in TransportErrors \cup
                          (IF url = "" THEN {"no valid API URL provided"} ELSE {}) :
                      fault' = te
                /\ pc' = "getJoke: returned"
                /\ resp' = NoResp
             \/ /\ url # ""
                /\ \E r \in Responses : resp' = r
                /\ pc' = "getJoke: parse"
                /\ fault' = fault
    /\ UNCHANGED <<storeVars, now, runs, cfgVars, callVars, mainVars, histVars,
                   draw, before, pre, queries, fbErr, fbPool>>
    /\ UNCHANGED <<sync, sideVars, setupVars>>

\* getJoke lines 285-302: the content type decides between the JSON record
\* and the markdown document, of which one joke is drawn
GetJokeParse ==
    /\ pc = "getJoke: parse"
    /\ \E n \in Draws(resp) :
          LET res == getJokeResult(resp, n)
          IN  /\ draw' = n
              /\ joke' = res.joke
              /\ fault' = res.err
    /\ pc' = "getJoke: returned"
    /\ UNCHANGED <<storeVars, now, runs, cfgVars, i, id, err, mainVars, histVars,
                   resp, fetches, before, pre, queries, fbErr, fbPool>>
    /\ UNCHANGED <<sync, held, sideVars, setupVars>>

NextGetJoke ==
    \/ GetJokeSend
    \/ GetJokeParse

SpecGetJoke == InitGetJoke /\ [][NextGetJoke]_vars

\* ------------------------------------- extractJokesFromMarkdown alone
\* The characters of the documents: the two characters of the marker, a
\* letter and the line break.
Alphabet == {"-", " ", "a", "\n"}
Documents == UNION {[1..n -> Alphabet] : n \in 0..MaxDocLen}

\* extractJokesFromMarkdown called on its own, as TestExtractJokesFromMarkdown
\* calls it, on every document over the alphabet.
InitExtract ==
    /\ jokes = <<>> /\ metadata = {} /\ now = 0 /\ runs = 0
    /\ language = "de" /\ apiURL = deAPIURL
    /\ pc = "extractJokesFromMarkdown: call"
    /\ i = 0 /\ joke = <<>> /\ id = 0 /\ err = NotReturned
    /\ syncErr = "nil" /\ mainJoke = <<>> /\ stdout = <<>> /\ exitCode = NoExit
    /\ resp = NoResp /\ draw = 0 /\ fetches = 0 /\ before = {} /\ pre = <<>>
    /\ queries = <<>> /\ fault = "nil" /\ fbErr = "nil" /\ fbPool = {}
    /\ last = NoPrev /\ prev = NoPrev /\ outs = <<>>
    /\ sync = NoSync /\ held = NoRead
    /\ arg \in Documents
    /\ ret = NoArg /\ peer = NoPeer /\ mu = Unlocked
    /\ StoreReady

\* extractJokesFromMarkdown lines 310-321
ExtractCall ==
    /\ pc = "extractJokesFromMarkdown: call"
    /\ ret' = extractJokesFromMarkdown(arg)
    /\ pc' = "extractJokesFromMarkdown: returned"
    /\ UNCHANGED <<storeVars, now, runs, cfgVars, callVars, mainVars, obsVars,
                   histVars, sync, held, arg, peer, mu, setupVars>>

NextExtract == ExtractCall

SpecExtract == InitExtract /\ [][NextExtract]_vars

\* ------------------------------------------- the sync pass alone
\* A value of the metadata row that time.Parse rejects.
Unparsable == [layout |-> "other", day |-> 0]

\* Stores a run can find: empty, one German joke not yet shown or shown,
\* one English joke.
SeedStores ==
    {<<>>, InsertJoke(<<>>, TextA, "de", FALSE), InsertJoke(<<>>, TextA, "de", TRUE),
     InsertJoke(<<>>, TextA, "en", TRUE)}

\* The metadata table at time t: without the row, with a value that does
\* not parse, with the time of an earlier sync.
SeedMetadata(t) ==
    {{}} \cup {{[key |-> SyncKey, value |-> v]} :
                  v \in {Unparsable} \cup {FormatRFC3339(d) : d \in 0..t}}

\* main at line 107 of a run with --lang de: the configuration is read and
\* the tables exist; store, metadata row and clock are any of the above.
InitSync ==
    /\ jokes \in SeedStores
    /\ now \in 0..MaxTime
    /\ metadata \in SeedMetadata(now)
    /\ runs = 1
    /\ language = "de" /\ apiURL = deAPIURL
    /\ pc = "sync"
    /\ i = 0 /\ joke = <<>> /\ id = 0 /\ err = NotReturned
    /\ syncErr = "nil" /\ mainJoke = <<>>
    /\ stdout = <<[kind |-> "config", text |-> <<>>]>>
    /\ exitCode = NoExit
    /\ resp = NoResp /\ draw = 0 /\ fetches = 0 /\ before = {} /\ pre = <<>>
    /\ queries = <<>> /\ fault = "nil" /\ fbErr = "nil" /\ fbPool = {}
    /\ last = NoPrev /\ prev = NoPrev /\ outs = <<>>
    /\ sync = NoSync /\ held = NoRead
    /\ arg = NoArg /\ ret = NoArg /\ peer = NoPeer /\ mu = Unlocked
    /\ StoreReady

NextSync == SyncStep

SpecSync == InitSync /\ [][NextSync]_vars

\* ------------------------------------- two runs on the same store
\* A second run of the program, started with the same language while the
\* first is in getFreshJoke, works on the same database file.  Of the second
\* run the model keeps what getFreshJoke keeps: where it stands, the loop
\* counter, the joke and the error it returns.
PeerRun(at, n, text, e) == [pc |-> at, i |-> n, joke |-> text, err |-> e]

\* Both runs stand at main line 115, before getFreshJoke, with --lang en.
InitTwoRuns ==
    /\ jokes \in SeedStores
    /\ metadata = {} /\ now = 0 /\ runs = 2
    /\ language = "en" /\ apiURL = enAPIURL
    /\ pc = "getFreshJoke"
    /\ i = 0 /\ joke = <<>> /\ id = 0 /\ err = NotReturned
    /\ syncErr = "nil" /\ mainJoke = <<>>
    /\ stdout = <<[kind |-> "config", text |-> <<>>]>>
    /\ exitCode = NoExit
    /\ resp = NoResp /\ draw = 0 /\ fetches = 0 /\ before = {} /\ pre = <<>>
    /\ queries = <<>> /\ fault = "nil" /\ fbErr = "nil" /\ fbPool = {}
    /\ last = NoPrev /\ prev = NoPrev /\ outs = <<>>
    /\ sync = NoSync /\ held = NoRead
    /\ arg = NoArg /\ ret = NoArg /\ mu = Unlocked
    /\ StoreReady
    /\ peer = PeerRun("getJoke", 0, <<>>, NotReturned)

\* The steps of the second run leave the variables of the first alone.
OnlyPeer ==
    UNCHANGED <<metadata, now, runs, cfgVars, pc, callVars, mainVars, obsVars,
                histVars, sync, held, arg, ret, mu,
                setupVars>>

\* The second run: getFreshJoke lines 192-195, one getJoke call
PeerGetJoke ==
    /\ peer.pc = "getJoke"
    /\ \/ \E te \in TransportErrors :
             peer' = PeerRun("returned", peer.i, <<>>,
                             Error("error fetching joke from API", te))
       \/ \E res \in FetchOutcomes :
             peer' = IF res.err = "nil"
                     THEN PeerRun("checkExists", peer.i, res.joke, peer.err)
                     ELSE PeerRun("returned", peer.i, <<>>,
                                  Error("error fetching joke from API", res.err))
    /\ jokes' = jokes
    /\ OnlyPeer

\* The second run: getFreshJoke lines 197-215, the COUNT statement
PeerCheckExists ==
    /\ peer.pc = "checkExists"
    /\ \E outcome \in StoreOutcomes :
          LET todo == afterCheck(outcome, CountJokes(jokes, peer.joke, language),
                                 peer.i)
          IN  peer' =
                CASE todo = "error" ->
                        PeerRun("returned", peer.i, <<>>,
                                Error("error checking joke existence", StoreFailure))
                  [] todo = "insert" -> PeerRun("insert", peer.i, peer.joke, peer.err)
                  [] todo = "getJoke" -> PeerRun("getJoke", peer.i + 1, peer.joke,
                                                 peer.err)
                  [] OTHER -> PeerRun("returned", peer.i + 1, <<>>, Exhausted)
    /\ jokes' = jokes
    /\ OnlyPeer

\* The second run: getFreshJoke lines 204-211, the INSERT statement
PeerInsert ==
    /\ peer.pc = "insert"
    /\ \/ /\ jokes' = InsertFresh(jokes, peer.joke, language)
          /\ peer' = PeerRun("returned", peer.i, peer.joke, Nil)
       \/ /\ jokes' = jokes
          /\ peer' = PeerRun("returned", peer.i, <<>>,
                             Error("error inserting joke", StoreFailure))
    /\ OnlyPeer

NextTwoRuns ==
    \/ EnterGetFreshJoke
    \/ GetJokeStep
    \/ CheckExists
    \/ InsertStep
    \/ PeerGetJoke
    \/ PeerCheckExists
    \/ PeerInsert

SpecTwoRuns == InitTwoRuns /\ [][NextTwoRuns]_vars

\* ------------------------------- getJoke beside a reconfiguration
\* A setAPIURL call in another goroutine: where it stands and the language
\* it finds selected.
Setter(at, lang) == [pc |-> at, lang |-> lang]

\* getJoke is about to be called while setAPIURL is about to be called in
\* another goroutine; the endpoint is unset or set by an earlier call.
InitReconfig ==
    /\ jokes = <<>> /\ metadata = {} /\ now = 0 /\ runs = 0
    /\ language = "en"
    /\ apiURL \in {"", enAPIURL, deAPIURL}
    /\ pc = "getJoke: send"
    /\ i = 0 /\ joke = <<>> /\ id = 0 /\ err = NotReturned
    /\ syncErr = "nil" /\ mainJoke = <<>> /\ stdout = <<>> /\ exitCode = NoExit
    /\ resp = NoResp /\ draw = 0 /\ fetches = 0 /\ before = {} /\ pre = <<>>
    /\ queries = <<>> /\ fault = "nil" /\ fbErr = "nil" /\ fbPool = {}
    /\ last = NoPrev /\ prev = NoPrev /\ outs = <<>>
    /\ sync = NoSync /\ held = NoRead
    /\ arg = NoArg /\ ret = NoArg /\ mu = Unlocked
    /\ StoreReady
    /\ \E lang \in Languages : peer = Setter("setAPIURL: Lock", lang)

\* The steps of setAPIURL leave the variables of getJoke alone.
OnlySetter ==
    UNCHANGED <<storeVars, now, runs, language, pc, callVars, mainVars, obsVars,
                histVars, sync, held, arg, ret,
                setupVars>>

\* setAPIURL line 173: mu.Lock() waits until no reader and no writer holds mu
SetAPIURLLock ==
    /\ peer.pc = "setAPIURL: Lock"
    /\ ~mu.writer /\ mu.readers = 0
    /\ mu' = [mu EXCEPT !.writer = TRUE]
    /\ peer' = Setter("setAPIURL: write", peer.lang)
    /\ apiURL' = apiURL
    /\ OnlySetter

\* setAPIURL lines 175-179: the assignment to apiURL
SetAPIURLWrite ==
    /\ peer.pc = "setAPIURL: write"
    /\ apiURL' = setAPIURL(peer.lang)
    /\ peer' = Setter("setAPIURL: Unlock", peer.lang)
    /\ mu' = mu
    /\ OnlySetter

\* setAPIURL line 174: the deferred mu.Unlock()
SetAPIURLUnlock ==
    /\ peer.pc = "setAPIURL: Unlock"
    /\ mu' = [mu EXCEPT !.writer = FALSE]
    /\ peer' = Setter("setAPIURL: returned", peer.lang)
    /\ apiURL' = apiURL
    /\ OnlySetter

NextReconfig ==
    \/ GetJokeSend
    \/ GetJokeParse
    \/ SetAPIURLLock
    \/ SetAPIURLWrite
    \/ SetAPIURLUnlock

SpecReconfig == InitReconfig /\ [][NextReconfig]_vars

\* ------------------------------------------------------------ start-up
\* main lines 45-105 followed statement by statement, on database files of
\* every age; a finished set-up is followed by the start of the next
\* process on the same file (what lies between is the specification Spec).

\* A row of the table before it had a language.
LegacyRow(n, text) == [id |-> n, joke |-> text]

\* The database file at the start: none, one written by an earlier version
\* of the program, one whose migration stopped half-way, a current one.
SeedFiles ==
    {[schema |-> NoTables, jokes |-> <<>>]}
    \cup {[schema |-> [t \in {"jokes"} |-> LegacyColumns], jokes |-> js] :
            js \in {<<>>, <<LegacyRow(1, TextA)>>,
                    <<LegacyRow(1, TextA), LegacyRow(2, TextB)>>}}
    \cup {[schema |-> [t \in {"jokes"} |-> Append(LegacyColumns, "language")],
           jokes |-> <<[id |-> 1, joke |-> TextA, language |-> "en"]>>]}
    \cup {[schema |-> CurrentSchema, jokes |-> js] :
            js \in {<<>>, InsertJoke(<<>>, TextA, "en", FALSE),
                    InsertJoke(InsertJoke(<<>>, TextA, "en", FALSE), TextB, "de", TRUE)}}

InitStartup ==
    /\ \E f \in SeedFiles : schema = f.schema /\ jokes = f.jokes
    /\ metadata = {}
    /\ now = 0
    /\ runs = 1
    /\ language \in Languages /\ apiURL = setAPIURL(language)
    /\ pc = "open"
    /\ i = 0 /\ joke = <<>> /\ id = 0 /\ err = NotReturned
    /\ syncErr = "nil" /\ mainJoke = <<>>
    /\ stdout = <<[kind |-> "config", text |-> <<>>]>>
    /\ exitCode = NoExit
    /\ resp = NoResp /\ draw = 0 /\ fetches = 0 /\ before = {} /\ pre = <<>>
    /\ queries = <<>> /\ fault = "nil" /\ fbErr = "nil" /\ fbPool = {}
    /\ last = NoPrev /\ prev = NoPrev /\ outs = <<>>
    /\ sync = NoSync /\ held = NoRead
    /\ arg = NoArg /\ ret = NoArg /\ peer = NoPeer /\ mu = Unlocked
    /\ db = "nil" /\ setup = NoSetup

\* What one statement of the set-up did: its error, whether it changed the
\* tables, and what main logged about it.
Logged(stmt, e, changed, log) ==
    [stmt |-> stmt, err |-> e, changed |-> changed, log |-> log]

\* what the set-up steps leave alone
StartupRest ==
    <<metadata, now, runs, cfgVars, callVars, syncErr, mainJoke, stdout, obsVars,
      histVars, sync, held, sideVars>>

\* main lines 45-63: the directory, sql.Open, defer db.Close()
OpenStore ==
    /\ pc = "open"
    /\ \E outcome \in StoreOutcomes :
          IF outcome = "ok"
          THEN /\ db' = "open"
               /\ setup' = Append(setup, Logged("sql.Open", "nil", FALSE, "none"))
               /\ pc' = "createJokes"
               /\ exitCode' = exitCode
          ELSE /\ db' = db
               /\ setup' = Append(setup, Logged("sql.Open", StoreFailure, FALSE, "fatal"))
               /\ pc' = "exited"
               /\ exitCode' = Exit(1)
    /\ UNCHANGED <<jokes, schema, StartupRest>>

\* main lines 68-77 and 80-87: CREATE TABLE IF NOT EXISTS; an error is fatal
CreateStep(at, next, name, cols) ==
    /\ pc = at
    /\ \E outcome \in StoreOutcomes :
          LET res == Exec(outcome, CreateTable(schema, name, cols), schema)
          IN  /\ schema' = res.schema
              /\ setup' = Append(setup,
                                 Logged(name, res.err, res.schema # schema,
                                        IF res.err # "nil" THEN "fatal" ELSE "none"))
              /\ pc' = IF res.err # "nil" THEN "exited" ELSE next
              /\ exitCode' = IF res.err # "nil" THEN Exit(1) ELSE exitCode
    /\ UNCHANGED <<jokes, db, StartupRest>>

CreateJokesTable == CreateStep("createJokes", "createMetadata", "jokes", JokesColumns)

CreateMetadataTable ==
    CreateStep("createMetadata", "addLanguage", "metadata", MetadataColumns)

\* main lines 90-96 and 99-105: ALTER TABLE jokes ADD COLUMN; whatever the
\* error, main goes on to the next statement
MigrateStep(at, next, col, value) ==
    /\ pc = at
    /\ \E outcome \in StoreOutcomes :
          LET res == Exec(outcome, AddColumn(schema, "jokes", col), schema)
              then == afterMigration(res.err)
          IN  /\ schema' = res.schema
              /\ jokes' = IF res.err = "nil" THEN WithDefault(jokes, col, value)
                          ELSE jokes
              /\ setup' = Append(setup,
                                 Logged(col, res.err, res.schema # schema,
                                        IF then.fatal THEN "fatal"
                                        ELSE IF then.warn THEN "warn" ELSE "none"))
              /\ pc' = IF then.fatal THEN "exited" ELSE next
              /\ exitCode' = IF then.fatal THEN Exit(1) ELSE exitCode
    /\ UNCHANGED <<db, StartupRest>>

AddLanguageColumn == MigrateStep("addLanguage", "addShown", "language", "en")

AddShownColumn ==
    MigrateStep("addShown", IF language = "de" THEN "sync" ELSE "getFreshJoke",
                "shown", FALSE)

\* the next process on the same database file
RunAgain ==
    /\ pc \in {"exited", "sync", "getFreshJoke"}
    /\ runs < MaxRuns
    /\ runs' = runs + 1
    /\ \E lang \in Languages : language' = lang /\ apiURL' = setAPIURL(lang)
    /\ pc' = "open"
    /\ exitCode' = NoExit
    /\ db' = "nil"
    /\ setup' = NoSetup
    /\ UNCHANGED <<storeVars, schema, now, callVars, syncErr, mainJoke, stdout,
                   obsVars, histVars, sync, held, sideVars>>

NextStartup ==
    \/ OpenStore
    \/ CreateJokesTable
    \/ CreateMetadataTable
    \/ AddLanguageColumn
    \/ AddShownColumn
    \/ RunAgain

SpecStartup == InitStartup /\ [][NextStartup]_vars

\* ----------------------------------------------------------- languages
\* setAPIURL and getFreshJoke called with the package variable language set
\* to any value, as TestSetAPIURL does: --lang is not validated (initConfig
\* line 157).
AnyLanguages == Languages \cup {"", "fr"}

InitLanguage ==
    /\ jokes \in SeedStores
    /\ metadata = {}
    /\ now = 0
    /\ runs = 1
    /\ language \in AnyLanguages
    /\ apiURL \in {"", enAPIURL, deAPIURL}
    /\ pc = "setAPIURL"
    /\ i = 0 /\ joke = <<>> /\ id = 0 /\ err = NotReturned
    /\ syncErr = "nil" /\ mainJoke = <<>>
    /\ stdout = <<>>
    /\ exitCode = NoExit
    /\ resp = NoResp /\ draw = 0 /\ fetches = 0 /\ before = {} /\ pre = <<>>
    /\ queries = <<>> /\ fault = "nil" /\ fbErr = "nil" /\ fbPool = {}
    /\ last = NoPrev /\ prev = NoPrev /\ outs = <<>>
    /\ sync = NoSync /\ held = NoRead
    /\ arg = NoArg /\ ret = NoArg /\ peer = NoPeer /\ mu = Unlocked
    /\ StoreReady

\* setAPIURL(), lines 172-180, then the call of getFreshJoke
CallSetAPIURL ==
    /\ pc = "setAPIURL"
    /\ apiURL' = setAPIURL(language)
    /\ pc' = "getFreshJoke"
    /\ UNCHANGED <<storeVars, now, runs, language, callVars, mainVars, obsVars,
                   histVars, sync, held, sideVars, setupVars>>

NextLanguage ==
    \/ CallSetAPIURL
    \/ EnterGetFreshJoke
    \/ GetJokeStep
    \/ CheckExists
    \/ InsertStep
    \/ PickUnshown
    \/ ResetStep
    \/ PickAgain
    \/ MarkStep

SpecLanguage == InitLanguage /\ [][NextLanguage]_vars

\* ------------------------------------------------------------ rotation
\* getFreshJoke called again and again in one process on a fixed pool of
\* German jokes, as TestGetFreshJokeGerman does after its sync (main_test
\* lines 694-716); the caller keeps count of what was returned.

\* The k-th joke of the pool: k letters.
PoolText(k) == [m \in 1..k |-> "a"]

\* n German records, none shown yet, and possibly an English record
RotationPool(n) == [k \in 1..n |-> [id |-> k, joke |-> PoolText(k), language |-> "de",
                                    shown |-> FALSE]]
RotationPools ==
    {RotationPool(n) : n \in 1..MaxPool}
    \cup {InsertJoke(RotationPool(n), TextB, "en", TRUE) : n \in 1..MaxPool}

\* The caller's count: the calls that returned, how often each record was
\* returned, the numbers of the calls that made a reset.
NoTally(js) ==
    [calls |-> 0, counts |-> [k \in UnshownGerman(js) |-> 0], resets |-> {}]

InitRotation ==
    /\ jokes \in RotationPools
    /\ metadata = {}
    /\ now = 0
    /\ runs = 1
    /\ language = "de" /\ apiURL = deAPIURL
    /\ pc = "getFreshJoke"
    /\ i = 0 /\ joke = <<>> /\ id = 0 /\ err = NotReturned
    /\ syncErr = "nil" /\ mainJoke = <<>>
    /\ stdout = <<>>
    /\ exitCode = NoExit
    /\ resp = NoResp /\ draw = 0 /\ fetches = 0 /\ before = {} /\ pre = <<>>
    /\ queries = <<>> /\ fault = "nil" /\ fbErr = "nil" /\ fbPool = {}
    /\ last = NoPrev /\ prev = NoPrev /\ outs = <<>>
    /\ sync = NoSync /\ held = NoRead
    /\ arg = NoArg /\ ret = NoTally(jokes) /\ peer = NoPeer /\ mu = Unlocked
    /\ StoreReady

\* the call returned a joke: the caller counts it and calls again
RecordCall ==
    /\ pc = "print"
    /\ err = Nil
    /\ ret' = [calls |-> ret.calls + 1,
               counts |-> [ret.counts EXCEPT ![id] = @ + 1],
               resets |-> IF \E q \in DOMAIN queries : queries[q] = "reset"
                          THEN ret.resets \cup {ret.calls + 1} ELSE ret.resets]
    /\ pc' = IF ret.calls + 1 < MaxCalls THEN "getFreshJoke" ELSE "done"
    /\ err' = NotReturned /\ mainJoke' = <<>>
    /\ DropLocals
    /\ outs' = <<>> /\ last' = NoPrev
    /\ UNCHANGED <<storeVars, now, runs, cfgVars, syncErr, stdout, exitCode, resp,
                   draw, fbErr, fbPool, prev, sync, held, arg, peer, mu, setupVars>>

NextRotation ==
    \/ EnterGetFreshJoke
    \/ PickUnshown
    \/ ResetStep
    \/ PickAgain
    \/ MarkStep
    \/ RecordCall

SpecRotation == InitRotation /\ [][NextRotation]_vars

\* ----------------------------------------------------------- isolation
\* One acquisition, getFreshJoke and then the fallback where main turns to
\* it, for any value of language, on stores that hold records of both
\* languages in any order and with any shown flags.

\* The tables of up to MaxRows records without two records of one text and
\* language; row ids count from 1.
RECURSIVE MixedStores(_)
MixedStores(n) ==
    IF n = 0 THEN {<<>>}
    ELSE LET shorter == MixedStores(n - 1)
         IN  shorter \cup
             {InsertJoke(js, t, l, f) :
                 js \in {x \in shorter : Len(x) = n - 1}, t \in Texts, l \in Languages,
                 f \in BOOLEAN}

InitIsolation ==
    /\ jokes \in {js \in MixedStores(MaxRows) :
                    \A k \in DOMAIN js, m \in DOMAIN js :
                       (js[k].joke = js[m].joke /\ js[k].language = js[m].language)
                          => k = m}
    /\ metadata = {}
    /\ now = 0
    /\ runs = 1
    /\ language \in AnyLanguages
    /\ apiURL = setAPIURL(language)
    /\ pc = "getFreshJoke"
    /\ i = 0 /\ joke = <<>> /\ id = 0 /\ err = NotReturned
    /\ syncErr = "nil" /\ mainJoke = <<>>
    /\ stdout = <<>>
    /\ exitCode = NoExit
    /\ resp = NoResp /\ draw = 0 /\ fetches = 0 /\ before = {} /\ pre = <<>>
    /\ queries = <<>> /\ fault = "nil" /\ fbErr = "nil" /\ fbPool = {}
    /\ last = NoPrev /\ prev = NoPrev /\ outs = <<>>
    /\ sync = NoSync /\ held = NoRead
    /\ arg = NoArg /\ ret = NoArg /\ peer = NoPeer /\ mu = Unlocked
    /\ StoreReady

NextIsolation ==
    \/ EnterGetFreshJoke
    \/ GetJokeStep
    \/ CheckExists
    \/ InsertStep
    \/ PickUnshown
    \/ ResetStep
    \/ PickAgain
    \/ MarkStep
    \/ Fallback

SpecIsolation == InitIsolation /\ [][NextIsolation]_vars

\* ----------------------------------------------------- one call, fair
\* One getFreshJoke call and the fallback on any store, where every fetch
\* and every statement of the store returns: no step that can be taken is
\* put off for ever.
SpecCall == InitIsolation /\ [][NextIsolation]_vars /\ WF_vars(NextIsolation)

\* -------------------------------------------------------------- re-sync
\* The sync of a run and, when that run is over, the sync of the next run
\* on the same store; arg keeps what the first pass met and left behind.
InitResync == InitSync

\* the next "de" run begins, some days later
SyncAgain ==
    /\ pc = "getFreshJoke"
    /\ runs = 1
    /\ runs' = 2
    /\ \E d \in Elapsed :
          /\ now + d <= MaxTime
          /\ now' = now + d
    /\ arg' = [first |-> sync, jokes |-> jokes, metadata |-> metadata]
    /\ sync' = NoSync
    /\ syncErr' = "nil"
    /\ pc' = "sync"
    /\ UNCHANGED <<storeVars, cfgVars, callVars, mainJoke, stdout, exitCode, obsVars,
                   histVars, held, ret, peer, mu, setupVars>>

NextResync ==
    \/ SyncStep
    \/ SyncAgain

SpecResync == InitResync /\ [][NextResync]_vars

Next ==
    \/ StartRun
    \/ SyncStep
    \/ EnterGetFreshJoke
    \/ GetJokeStep
    \/ CheckExists
    \/ InsertStep
    \/ PickUnshown
    \/ ResetStep
    \/ PickAgain
    \/ MarkStep
    \/ Fallback
    \/ PrintJoke

Spec == Init /\ [][Next]_vars

\* ====================================================================
\* Properties
\* ====================================================================

\* getFreshJoke has returned to main line 115 and main has not moved on.
Returned ==
    /\ err # NotReturned
    /\ pc \in {"print", "fallback"}
    /\ fbErr = "nil"
    /\ fbPool = {}
ReturnedOK == Returned /\ err = Nil
ModeA == language # "de"
ModeB == language = "de"

\* C1: Mode A freshness.  When getFreshJoke, with a language other than
\* "de", returns a text without error, the store held no record of that text
\* for the language when the call checked it, and on return it holds exactly
\* one, with shown = TRUE.
C1_Freshness ==
    (ModeA /\ ReturnedOK) =>
        /\ RowsWith(pre, mainJoke, language) = {}
        /\ Cardinality(RowsWith(jokes, mainJoke, language)) = 1
        /\ \A k \in RowsWith(jokes, mainJoke, language) : jokes[k].shown = TRUE

\* C1 witness: a successful Mode A return into a store that already held
\* records of the language, after a duplicate had been fetched first.
C1_Witness ==
    /\ ModeA /\ ReturnedOK
    /\ LanguageRows(pre, language) # {}
    /\ before # {}

\* The error of the exhausted fetch loop, as the message reads.
ExhaustionError(e) ==
    e.msg = "could not find a new joke after %d attempts" /\ e.n = 5

\* Every text of a set had a record for the language when the call began.
AllRecorded(texts) == \A t \in texts : RowsWith(pre, t, language) # {}

\* C2: Mode A bounded retry.  One getFreshJoke call issues at most 5
\* fetches.  It returns the text of the first attempt whose text has no
\* record, having fetched exactly as often as it made attempts: every text
\* fetched before was recorded.  It fails with "could not find a new joke
\* after 5 attempts" exactly when nothing failed and all 5 fetched texts were
\* found recorded, and then it has inserted nothing.
C2_BoundedRetry ==
    ModeA =>
        /\ fetches <= 5
        /\ ReturnedOK =>
              /\ AllRecorded(before)
              /\ RowsWith(pre, mainJoke, language) = {}
              /\ fetches = i + 1
        /\ Returned =>
              /\ ExhaustionError(err) <=>
                    /\ fault = "nil"
                    /\ fetches = 5
                    /\ AllRecorded(before \cup {joke})
              /\ ExhaustionError(err) => jokes = pre /\ err = Exhausted

\* C2 witness: a call that has just failed with the exhaustion error after
\* its fifth fetch, having met two different recorded texts.
C2_Witness ==
    /\ ModeA /\ Returned
    /\ ExhaustionError(err)
    /\ fetches = 5
    /\ Cardinality(before) = 2

\* The second of two calls in a row for one language has returned: the
\* store had no record of the text when the first began, and every fetch of
\* both calls brought that text.
SameTextTwice ==
    /\ ModeA /\ Returned
    /\ prev.fresh /\ prev.language = language
    /\ fault = "nil"
    /\ fetches >= 1
    /\ before \cup {joke} = {prev.joke}

\* C3: a source that hands out one text on every call, against a store
\* that had no record of it.  The first call succeeds; the second call for
\* the language fails with the exhaustion error after exactly 5 fetches; the
\* store then holds a single record of the text.
C3_SameTextSource ==
    SameTextTwice =>
        /\ prev.ok
        /\ ExhaustionError(err)
        /\ fetches = 5
        /\ Cardinality(RowsWith(jokes, prev.joke, language)) = 1

\* C3 witness: the second call has returned, every fetch of both calls
\* having brought the same text.
C3_Witness == SameTextTwice /\ prev.joke = TextA /\ err # Nil

\* The row of calls ends with the call that has just returned, and its last
\* n calls began with call s.
WindowFrom(s) == s..Len(outs)

\* What is asked of n calls in a row that began with a store of exactly n
\* distinct jokes of the language: all succeed, their outputs differ pairwise,
\* and every output's record is shown once the last of them has returned.
DistinctAndShown(s) ==
    /\ \A k \in WindowFrom(s) : outs[k].ok
    /\ \A k \in WindowFrom(s), m \in WindowFrom(s) :
          outs[k].joke = outs[m].joke => k = m
    /\ \A k \in WindowFrom(s) :
          /\ RowsWith(jokes, outs[k].joke, language) # {}
          /\ \A r \in RowsWith(jokes, outs[k].joke, language) : jokes[r].shown

\* Call s began with exactly as many distinct jokes as calls have been made
\* since, itself included.
SeededFor(s) ==
    /\ outs[s].pool.n = Len(outs) - s + 1
    /\ outs[s].pool.distinct

C4_WitnessModeA ==
    /\ ModeA /\ ReturnedOK
    /\ outs # <<>>
    /\ SeededFor(Len(outs))
    /\ outs[Len(outs)].pool.n = 1

\* Every "de" record of a table is shown, and there is one.
AllShownDe(js) ==
    /\ LanguageRows(js, "de") # {}
    /\ \A k \in LanguageRows(js, "de") : js[k].shown

\* C5: Mode B reset.  When every "de" record is shown and there is at least
\* one, the next getFreshJoke call, no store statement failing, resets the
\* flags and succeeds; it returns the text of one of those records, and on
\* return exactly the returned record is shown and every other "de" record
\* is not.  Records of other languages are left as they were.
C5_ResetCycle ==
    (ModeB /\ Returned /\ fault = "nil" /\ AllShownDe(pre)) =>
        /\ err = Nil
        /\ queries = <<"pick", "reset", "pick", "mark">>
        /\ DOMAIN jokes = DOMAIN pre
        /\ \E k \in LanguageRows(pre, "de") :
              /\ pre[k].joke = mainJoke
              /\ pre[k].id = id
              /\ jokes[k] = [pre[k] EXCEPT !.shown = TRUE]
              /\ \A m \in LanguageRows(pre, "de") \ {k} :
                    jokes[m] = [pre[m] EXCEPT !.shown = FALSE]
        /\ \A k \in DOMAIN pre : pre[k].language # "de" => jokes[k] = pre[k]

\* C5 witness: a Mode B call that began with two "de" records, both shown,
\* has returned.
C5_Witness ==
    /\ ModeB /\ ReturnedOK
    /\ AllShownDe(pre)
    /\ Cardinality(LanguageRows(pre, "de")) = 2

\* C5 witness with a record of another language beside the shown "de"
\* record.
C5_WitnessOtherLanguage ==
    /\ ModeB /\ ReturnedOK
    /\ AllShownDe(pre)
    /\ LanguageRows(pre, "en") # {}

\* How often a statement occurs among the statements of the call.
Times(q) == Cardinality({k \in DOMAIN queries : queries[k] = q})

\* C6: Mode B on a store without "de" records.  getFreshJoke, no store
\* statement failing, resets once, repeats the unshown pick exactly once and
\* returns the failure of that second pick; a second pick finds no row only
\* when the store holds no "de" record; and a failing call creates no record.
C6_EmptyPool ==
    ModeB =>
        /\ Times("pick") <= 2 /\ Times("reset") <= 1
        /\ Returned =>
              /\ (fault = "nil" /\ LanguageRows(pre, "de") = {}) =>
                    /\ err.msg = "error getting joke after reset"
                    /\ err.cause = NoRows
                    /\ queries = <<"pick", "reset", "pick">>
                    /\ jokes = pre
              /\ err.cause = NoRows =>
                    /\ LanguageRows(pre, "de") = {}
                    /\ LanguageRows(jokes, "de") = {}
              /\ err # Nil => Len(jokes) = Len(pre)

\* C6 witness: a Mode B call has failed with no row after the reset, in a
\* store that holds a record of another language.
C6_Witness ==
    /\ ModeB /\ Returned
    /\ err.cause = NoRows
    /\ queries = <<"pick", "reset", "pick">>
    /\ jokes # <<>>

\* The joke lines among the lines of standard output.
JokeLines(out) == {k \in DOMAIN out : out[k].kind = "joke"}

\* The texts a table holds for a language.
LanguageTexts(js, lang) == {js[k].joke : k \in LanguageRows(js, lang)}

\* C7: after Mode A has ended with the exhaustion error, the run prints
\* one joke drawn from all the stored records of the selected language, and
\* of no other; when the pick fails, as it does when the store has no record
\* of the language, the run ends with a failure and prints no joke.
C7_Fallback ==
    /\ (ModeA /\ ExhaustionError(err) /\ pc \in {"print", "exited"}) =>
          /\ fbPool = LanguageTexts(jokes, language)
          /\ fbErr = "nil" =>
                /\ mainJoke \in LanguageTexts(jokes, language)
                /\ pc = "exited" =>
                      /\ exitCode = Exit(0)
                      /\ \E k \in DOMAIN stdout :
                            /\ JokeLines(stdout) = {k}
                            /\ stdout[k].text = mainJoke
          /\ fbErr # "nil" =>
                /\ pc = "exited"
                /\ exitCode = Exit(1)
                /\ JokeLines(stdout) = {}
    /\ fbErr = NoRows =>
          /\ LanguageRows(jokes, language) = {}
          /\ pc = "exited" /\ exitCode = Exit(1) /\ JokeLines(stdout) = {}

\* C7 witness: a run whose fetch loop was exhausted has printed a stored
\* joke of its language while the store held a text of the other language
\* only.
C7_Witness ==
    /\ ModeA /\ ExhaustionError(err)
    /\ pc = "exited" /\ exitCode = Exit(0)
    /\ LanguageTexts(jokes, "de") \ LanguageTexts(jokes, language) # {}

\* C7 witness of the failing pick: the fetch loop was exhausted and the
\* query of the fallback failed.
C7_WitnessFatal ==
    /\ ModeA /\ ExhaustionError(err)
    /\ fbErr # "nil"

\* C8: every run ends in one of two ways: one joke printed and exit
\* status 0, or no joke printed and a non-zero exit status.  No joke is
\* printed before the run ends, so none is printed twice and none is followed
\* by a failure.
C8_ExitDichotomy ==
    /\ pc = "exited" =>
          \/ exitCode = Exit(0) /\ Cardinality(JokeLines(stdout)) = 1
                                /\ stdout[Len(stdout)].kind = "joke"
                                /\ stdout[Len(stdout)].text = mainJoke
          \/ exitCode = Exit(1) /\ JokeLines(stdout) = {}
    /\ pc # "exited" => exitCode = NoExit /\ JokeLines(stdout) = {}

\* C8 witness: a run has failed after getFreshJoke returned an error and
\* the fallback found no record.
C8_Witness ==
    /\ pc = "exited" /\ exitCode = Exit(1)
    /\ err # NotReturned /\ fbErr = NoRows

\* C8 witness of the other outcome: a run has printed its joke.
C8_WitnessPrinted ==
    /\ pc = "exited" /\ exitCode = Exit(0)
    /\ stdout[Len(stdout)].text = TextB

\* C9: in the fetch loop only a duplicate leads to another fetch: every
\* text fetched before the current attempt was recorded.  A failure of the
\* fetch, of the parsing, of the existence check or of the insert ends the
\* call with an error at once: no fetch follows it and the store is as it
\* was.
C9_OnlyDuplicatesRetry ==
    ModeA =>
        /\ fetches <= i + 1
        /\ AllRecorded(before)
        /\ fault # "nil" =>
              /\ pc = "fallback"
              /\ err # Nil /\ err # NotReturned /\ ~ExhaustionError(err)
              /\ err.cause = fault
              /\ fetches = i + 1
              /\ jokes = pre

\* C9 witness: a call has ended on a failed insert after a duplicate.
C9_Witness ==
    /\ ModeA /\ Returned
    /\ err.msg = "error inserting joke"
    /\ before # {}

\* C9 witnesses of the other failures: a malformed JSON body, an empty
\* extraction, a failed fetch, a failed existence check.
C9_WitnessParse == ModeA /\ Returned /\ fault = "error parsing JSON" /\ before # {}
C9_WitnessEmpty == ModeA /\ Returned /\ fault = "no jokes found in markdown content" /\ before # {}
C9_WitnessFetch == ModeA /\ Returned /\ fault \in TransportErrors /\ before # {}
C9_WitnessCheck ==
    ModeA /\ Returned /\ err.msg = "error checking joke existence" /\ before # {}

\* The response as it would be with status 200.
WithStatusOK(r) == [r EXCEPT !.status = 200]

\* C10: getJoke does not look at the HTTP status.  A response that was
\* read through counts as fetched whatever its status, and getJoke returns for
\* it what it returns for the response with status 200 and the same content
\* type and body; a JSON record with an error status yields its joke field.
\* Only a failure in transport makes the fetch itself fail.
C10_StatusNotInspected ==
    /\ pc = "getJoke: parse" => resp # NoResp /\ fault = "nil"
    /\ pc = "getJoke: returned" =>
          IF resp = NoResp
          THEN fault \in TransportErrors \cup {"no valid API URL provided"}
          ELSE /\ [err |-> fault, joke |-> joke] = getJokeResult(WithStatusOK(resp), draw)
               /\ (/\ IsJSONContentType(resp.contentType)
                   /\ resp.body.kind = "json"
                   /\ resp.body.wellformed /\ resp.body.hasJoke) =>
                     fault = "nil" /\ joke = resp.body.joke
               /\ (~IsJSONContentType(resp.contentType) /\ resp.body.kind = "doc") =>
                     LET js == extractJokesFromMarkdown(resp.body.text)
                     IN  IF js = <<>> THEN fault = "no jokes found in markdown content"
                         ELSE fault = "nil" /\ \E k \in DOMAIN js : joke = js[k]

\* C10 witness: getJoke has returned the joke field of a JSON record that
\* came with status 500.
C10_Witness ==
    /\ pc = "getJoke: returned"
    /\ resp # NoResp /\ resp.status = 500
    /\ IsJSONContentType(resp.contentType)
    /\ fault = "nil" /\ joke = TextA

\* C10 witness for a document: a joke drawn from a markdown body that came
\* with status 500.
C10_WitnessDocument ==
    /\ pc = "getJoke: returned"
    /\ resp # NoResp /\ resp.status = 500
    /\ ~IsJSONContentType(resp.contentType)
    /\ fault = "nil" /\ joke = TextB

\* C11: a response with HTTP status 500 makes getJoke return an error and
\* never a joke, whatever the content type and the body of the response.
C11_ErrorStatusIsError ==
    (pc = "getJoke: returned" /\ resp # NoResp /\ resp.status = 500) =>
        fault # "nil" /\ joke = <<>>

\* The positions of a document at which a line begins, the position just
\* after the line that begins at p, and the lines that begin with a hyphen
\* and a space.
LineStarts(d) == {p \in 1..(Len(d) + 1) : p = 1 \/ d[p - 1] = "\n"}
LineEnd(d, p) ==
    CHOOSE q \in p..(Len(d) + 1) :
        /\ q = Len(d) + 1 \/ d[q] = "\n"
        /\ \A r \in p..(q - 1) : d[r] # "\n"
MarkedLines(d) ==
    {p \in LineStarts(d) : p + 1 <= Len(d) /\ d[p] = "-" /\ d[p + 1] = " "}

\* C12: extractJokesFromMarkdown returns, in document order, exactly one
\* entry per line that begins with "- ", the entry being the line without
\* these two characters and otherwise untouched (further spaces stay); other
\* lines contribute nothing, and a document without such a line yields the
\* empty sequence.
C12_Extraction ==
    pc = "extractJokesFromMarkdown: returned" =>
        LET marked == MarkedLines(arg)
        IN  /\ DOMAIN ret = 1..Cardinality(marked)
            /\ \A p \in marked :
                  ret[Cardinality({q \in marked : q <= p})] =
                      SubSeq(arg, p + 2, LineEnd(arg, p) - 1)

\* C12 witness: of the document "-  a", a line break and "- " the entries
\* are " a" and the empty text, in this order.
C12_Witness ==
    /\ pc = "extractJokesFromMarkdown: returned"
    /\ arg = <<"-", " ", " ", "a", "\n", "-", " ">>
    /\ ret = << <<" ", "a">>, <<>> >>

\* C12 witness without a marked line: "-a" and "a- " yield nothing.
C12_WitnessNone ==
    /\ pc = "extractJokesFromMarkdown: returned"
    /\ arg = <<"-", "a", "\n", "a", "-", " ">>
    /\ ret = <<>>

\* A sync pass has returned to main.
SyncReturned == pc = "getFreshJoke" /\ sync # NoSync

\* The metadata rows as the pass found them show no sync within the last
\* seven days: no row, a value that is no timestamp, or a timestamp more
\* than 7 days before now.
FoundStale ==
    LET found == {r \in sync.metadata : r.key = "german_jokes_last_sync"}
    IN  \/ found = {}
        \/ \E r \in found : r.value.layout # "RFC3339" \/ now - r.value.day > 7

\* C13: syncGermanJokesIfNeeded, having read the metadata table, starts the
\* download and re-ingestion exactly when the row is absent, its value is
\* unparsable or its timestamp is more than 7 days older than now; with a
\* timestamp within the 7 days it returns nil without a download and leaves
\* both tables as they were.
C13_SyncWhenStale ==
    (SyncReturned /\ sync.read = "ok") =>
        /\ sync.fetch # "none" <=> FoundStale
        /\ ~FoundStale =>
              /\ syncErr = "nil"
              /\ sync.fetch = "none"
              /\ jokes = sync.jokes /\ metadata = sync.metadata

\* C13 witness: a last sync exactly 7 days ago, and the pass returned
\* without a download.
C13_Witness ==
    /\ SyncReturned /\ sync.read = "ok" /\ sync.fetch = "none"
    /\ \E r \in sync.metadata : r.value = FormatRFC3339(now - 7)

\* C13 witnesses of the three stale cases: no row, an unparsable value, a
\* sync 8 days ago; each with a download.
C13_WitnessAbsent == SyncReturned /\ sync.fetch = "done" /\ sync.metadata = {}
C13_WitnessUnparsable ==
    SyncReturned /\ sync.fetch = "done" /\ \E r \in sync.metadata : r.value = Unparsable
C13_WitnessOld ==
    /\ SyncReturned /\ sync.fetch = "done"
    /\ \E r \in sync.metadata : r.value = FormatRFC3339(now - 8)

\* A sync pass has downloaded a document with at least one entry and has
\* gone through the entries.
Ingested == SyncReturned /\ sync.fetch = "done" /\ sync.entries # <<>>

\* No statement of the pass failed.
NoStoreError ==
    /\ \A k \in DOMAIN sync.outcome : sync.outcome[k] = "ok"
    /\ sync.write = "ok"

\* The rows the pass has added to table jokes.
AddedRows == (DOMAIN jokes) \ (DOMAIN sync.jokes)

\* C14: a sync pass whose download succeeds and yields at least one entry
\* leaves the records it found as they were and adds only unshown "de"
\* records, of extracted texts that had no "de" record, at most one per
\* text.  After a pass without store errors every extracted text that had no
\* "de" record has a new one, every extracted text has exactly one "de"
\* record, and the sync timestamp is the current time.
C14_SyncIngests ==
    Ingested =>
        /\ SubSeq(jokes, 1, Len(sync.jokes)) = sync.jokes
        /\ \A k \in AddedRows :
              /\ jokes[k].language = "de" /\ ~jokes[k].shown
              /\ \E e \in DOMAIN sync.entries : jokes[k].joke = sync.entries[e]
              /\ RowsWith(sync.jokes, jokes[k].joke, "de") = {}
              /\ \A m \in AddedRows : jokes[m].joke = jokes[k].joke => m = k
        /\ NoStoreError =>
              /\ \A e \in DOMAIN sync.entries :
                    /\ Cardinality(RowsWith(jokes, sync.entries[e], "de")) = 1
                    /\ RowsWith(sync.jokes, sync.entries[e], "de") = {} =>
                          \E k \in AddedRows : jokes[k].joke = sync.entries[e]
              /\ metadata =
                    {r \in sync.metadata : r.key # "german_jokes_last_sync"} \cup
                    {[key |-> "german_jokes_last_sync",
                      value |-> [layout |-> "RFC3339", day |-> now]]}
              /\ syncErr = "nil"

\* C14 witness: joke a had a "de" record, the document lists a and b, and
\* the pass has added one record, for b.
C14_Witness ==
    /\ Ingested /\ NoStoreError
    /\ sync.entries = <<TextA, TextB>>
    /\ RowsWith(sync.jokes, TextA, "de") # {}
    /\ Cardinality(AddedRows) = 1

\* C14 witness of a document that lists one joke on two lines, ingested
\* into an empty store.
C14_WitnessTwice ==
    /\ Ingested /\ NoStoreError
    /\ sync.entries = <<TextA, TextA>>
    /\ sync.jokes = <<>>
    /\ Len(jokes) = 1

\* C15 as stated: the sync as a whole fails only if the download fails or
\* the extraction yields no entry.
C15_FailsOnlyOnFetchOrEmpty ==
    (SyncReturned /\ syncErr # "nil") =>
        \/ sync.fetch = "failed"
        \/ sync.fetch = "done" /\ sync.entries = <<>>

\* C15: an entry whose existence check or insert fails is skipped and the
\* pass goes on: every entry whose statements ran has its record, and the
\* failed entries alone do not make the sync fail.  The sync fails exactly
\* when reading the last sync time fails, the download fails, the extraction
\* yields no entry, or writing the sync time fails.
C15_EntryErrorsSkipped ==
    SyncReturned =>
        /\ Ingested =>
              \A e \in DOMAIN sync.entries :
                  sync.outcome[e] = "ok" => RowsWith(jokes, sync.entries[e], "de") # {}
        /\ syncErr # "nil" <=>
              \/ sync.read = "error"
              \/ sync.fetch = "failed"
              \/ sync.fetch = "done" /\ sync.entries = <<>>
              \/ sync.write = "error"

\* C15 witness: the insert of the first entry failed, the second entry was
\* ingested, and the sync returned nil.
C15_Witness ==
    /\ Ingested
    /\ sync.entries = <<TextA, TextB>>
    /\ sync.outcome = <<"insert error", "ok">>
    /\ sync.jokes = <<>>
    /\ Len(jokes) = 1 /\ jokes[1].joke = TextB
    /\ syncErr = "nil"

\* C15 witness of a failed existence check.
C15_WitnessCheck ==
    /\ Ingested
    /\ sync.entries = <<TextA, TextB>>
    /\ sync.outcome = <<"check error", "ok">>
    /\ sync.jokes = <<>>
    /\ Len(jokes) = 1 /\ jokes[1].joke = TextB
    /\ syncErr = "nil"

\* C16: the sync timestamp is written only by the sync pass and only after
\* a successful ingestion pass.  No other step changes the metadata table,
\* and a sync whose download fails, whose document has no entry or in which
\* an entry could not be ingested leaves the table as it was.
C16_TimestampOnlyAfterIngestion ==
    [][metadata' # metadata =>
          /\ pc = "sync"
          /\ sync'.fetch = "done" /\ sync'.entries # <<>>
          /\ \A k \in DOMAIN sync'.outcome : sync'.outcome[k] = "ok"]_vars

\* C16, the part that holds: the metadata table changes only in a sync
\* pass that downloaded a document with at least one entry, went through the
\* entries and returned nil.
C16_OnlySyncWrites ==
    [][metadata' # metadata =>
          /\ pc = "sync"
          /\ sync'.fetch = "done" /\ sync'.entries # <<>>
          /\ syncErr' = "nil"]_vars

\* The (id, text, language) triples of a table.
Triples(js) == {<<js[k].id, js[k].joke, js[k].language>> : k \in DOMAIN js}

\* C17: joke records are never deleted and their text and language never
\* change: in every step the set of (id, text, language) triples only grows,
\* every record stays where it is, and at most its shown flag changes.
C17_RecordsOnlyGrow ==
    [][/\ Triples(jokes) \subseteq Triples(jokes')
       /\ Len(jokes') >= Len(jokes)
       /\ \A k \in DOMAIN jokes :
             jokes'[k] = [jokes[k] EXCEPT !.shown = jokes'[k].shown]]_vars

\* C17 witness: a store with an English and a German record in which the
\* reset has just changed a shown flag.
C17_Witness ==
    /\ pc = "pickAgain"
    /\ Len(jokes) = 2 /\ Len(pre) = 2
    /\ \E k \in DOMAIN jokes : jokes[k].language = "en"
    /\ \E k \in DOMAIN jokes : pre[k].shown /\ ~jokes[k].shown

\* C18: runs executed one after the other, from a store without
\* duplicates, never leave two records with the same text and language,
\* whatever the sources hand out (the same joke again, a document that lists
\* a joke on several lines).
C18_NoDuplicates ==
    \A k \in DOMAIN jokes, m \in DOMAIN jokes :
        (jokes[k].joke = jokes[m].joke /\ jokes[k].language = jokes[m].language)
            => k = m

\* C18 witness: a sync pass over a document that lists joke a twice, into a
\* store that held a as an English record; a has one record per language.
C18_Witness ==
    /\ Ingested
    /\ sync.entries = <<TextA, TextA>>
    /\ \A e \in DOMAIN sync.outcome : sync.outcome[e] = "ok"
    /\ RowsWith(sync.jokes, TextA, "en") # {}
    /\ Cardinality(RowsWith(jokes, TextA, "de")) = 1
    /\ Cardinality(RowsWith(jokes, TextA, "en")) = 1

\* C18 witness in Mode A: the source handed out a recorded text first and
\* the call returned another one.
C18_WitnessModeA ==
    /\ ModeA /\ ReturnedOK
    /\ before # {}
    /\ \A t \in before : Cardinality(RowsWith(jokes, t, language)) = 1

\* The first run, the second run: it has checked a text and stands before
\* its INSERT; it has inserted a text and returned nil.
MainBeforeInsert(t) == pc = "insert" /\ joke = t
PeerBeforeInsert(t) == peer.pc = "insert" /\ peer.joke = t
MainInserted(t) == pc = "print" /\ err = Nil /\ mainJoke = t
PeerInserted(t) == peer.pc = "returned" /\ peer.err = Nil /\ peer.joke = t

\* C19: the existence check and the insert are two statements with nothing
\* to hold them together.  Once both runs have checked the same new text
\* and neither has inserted, the text has no record; the insert of the one
\* does not stop the other; and when both have inserted and returned nil the
\* store holds two records of that text and language.
C19_CheckThenInsertRace ==
    \A t \in {joke, mainJoke, peer.joke} :
        LET had == Cardinality(RowsWith(pre, t, language))
            has == Cardinality(RowsWith(jokes, t, language))
        IN  /\ (MainBeforeInsert(t) /\ PeerBeforeInsert(t)) => had = 0 /\ has = 0
            /\ (MainInserted(t) /\ PeerBeforeInsert(t)) => had = 0 /\ has = 1
            /\ (MainBeforeInsert(t) /\ PeerInserted(t)) => has = 1
            /\ (MainInserted(t) /\ PeerInserted(t)) => had = 0 /\ has = 2

\* C19 witness: both runs returned nil for joke a and the store holds two
\* English records of it.
C19_Witness ==
    /\ MainInserted(TextA) /\ PeerInserted(TextA)
    /\ Cardinality(RowsWith(jokes, TextA, "en")) = 2

\* C19 witness of the interleaving itself: both runs have checked joke a,
\* neither has inserted.
C19_WitnessBothChecked == MainBeforeInsert(TextA) /\ PeerBeforeInsert(TextA)

\* C20: apiURL is guarded by mu on every access.  getJoke reads it only
\* while it holds the read lock, so no read falls between the Lock and the
\* Unlock of a concurrent setAPIURL call, and a read brings the value of a
\* completed write.
C20_ReadsUnderLock ==
    held.read =>
        /\ held.mu.readers > 0
        /\ ~held.mu.writer
        /\ held.url \in {"", enAPIURL, deAPIURL}

\* C20, the part that holds: apiURL is written only while the write lock is
\* held.
C20_WritesUnderLock == [][apiURL' # apiURL => mu.writer /\ mu'.writer]_vars

\* getJoke has read apiURL while setAPIURL held the write lock.
C20_ReadDuringWrite == held.read /\ held.mu.writer

\* ------------------------------------------------------------------ C21
\* C21: the store is opened once at start-up and closed before the process
\* exits, on every exit path that follows the open: a run that has exited
\* after sql.Open succeeded has closed its database handle.
C21_ClosedOnEveryExit ==
    (pc = "exited" /\ db # "nil") => db = "closed"

\* the paths of C21: an exit after a failed CREATE TABLE, an exit after the
\* fallback pick failed, and the return of main
C21_ExitAtCreateTable ==
    pc = "exited" /\ exitCode = Exit(1) /\ db = "open" /\ err = NotReturned
C21_ExitAtFallback ==
    pc = "exited" /\ exitCode = Exit(1) /\ db = "open" /\ fbErr # "nil"
C21_ClosedOnReturn ==
    pc = "exited" /\ exitCode = Exit(0) /\ db = "closed"

\* ------------------------------------------------------------------ C22
\* Both tables exist, with all their columns.
Initialized(tables) ==
    /\ {"jokes", "metadata"} \subseteq DOMAIN tables
    /\ \A c \in {"id", "joke", "language", "shown", "created_at"} :
          \E k \in DOMAIN tables["jokes"] : tables["jokes"][k] = c
    /\ \A c \in {"key", "value", "updated_at"} :
          \E k \in DOMAIN tables["metadata"] : tables["metadata"][k] = c

\* C22: the schema set-up is idempotent: on a store that is already
\* initialized, every statement of the set-up that the driver carries out
\* reports no error (nothing fatal, no warning), leaves the tables and their
\* columns as they are, and keeps every record.
C22_SetupIdempotent ==
    [][(/\ Initialized(schema)
        /\ Len(setup') > Len(setup)
        /\ setup'[Len(setup')].err # "store failure")
       => (/\ schema' = schema
           /\ jokes' = jokes
           /\ metadata' = metadata
           /\ setup'[Len(setup')].log = "none"
           /\ pc' # "exited")]_vars

\* a second set-up has run through all its statements on the store the first
\* one initialized, with records in it, and none of them changed anything
C22_Witness ==
    /\ runs >= 2
    /\ pc \in {"sync", "getFreshJoke"}
    /\ Len(setup) = 5
    /\ \A k \in DOMAIN setup : setup[k].err # "store failure" /\ ~setup[k].changed
    /\ setup[4].err = "duplicate column name" /\ setup[5].err = "duplicate column name"
    /\ Initialized(schema)
    /\ Len(jokes) >= 2
    /\ schema # CurrentSchema

\* ------------------------------------------------------------------ C23
\* C23: during the column migration a "column already exists" condition
\* counts as success and the run goes on, whereas any other migration error
\* is fatal: the run has stopped with a non-zero exit status and does not
\* reach joke acquisition.
C23_OtherMigrationErrorFatal ==
    /\ (\E k \in DOMAIN setup :
           /\ setup[k].stmt \in {"language", "shown"}
           /\ setup[k].err \notin {"nil", "duplicate column name"})
       => (pc = "exited" /\ exitCode = <<1>>)
    /\ (/\ setup # <<>>
        /\ setup[Len(setup)].stmt \in {"language", "shown"}
        /\ setup[Len(setup)].err = "duplicate column name")
       => (pc # "exited" /\ setup[Len(setup)].log = "none")

\* the half of C23 that holds: a column that exists already does not stop
\* the run and is not reported
C23_DuplicateColumnIsSuccess ==
    (/\ setup # <<>>
     /\ setup[Len(setup)].stmt \in {"language", "shown"}
     /\ setup[Len(setup)].err = "duplicate column name")
    => (pc # "exited" /\ setup[Len(setup)].log = "none")

\* a run reached joke acquisition although the migration could add neither
\* column to a table of the old shape
C23_AcquisitionWithoutColumns ==
    /\ pc \in {"sync", "getFreshJoke"}
    /\ exitCode = <<>>
    /\ ~Initialized(schema)
    /\ \E k \in DOMAIN setup : setup[k].log = "warn"

\* ------------------------------------------------------------------ C24
\* C24: setAPIURL selects deAPIURL exactly when language is "de", and every
\* other value, "" and "fr" included, selects enAPIURL; getFreshJoke runs
\* Mode B (statements on the store, no fetch) exactly for "de" and Mode A
\* (fetches, none of the Mode B statements) for every other value.
C24_OnlyDeIsGerman ==
    pc # "setAPIURL" =>
       /\ apiURL = (IF language = "de" THEN deAPIURL ELSE enAPIURL)
       /\ pc \in {"pickUnshown", "resetShown", "pickAgain", "markShown"} => language = "de"
       /\ pc \in {"getJoke", "checkExists", "insert"} => language # "de"
       /\ pc \in {"print", "fallback"} =>
             IF language = "de" THEN fetches = 0 /\ queries # <<>>
             ELSE fetches > 0 /\ queries = <<>>

\* getFreshJoke returned a fetched joke for a language the program does not
\* know, and one for no language at all, after setAPIURL replaced the German
\* endpoint by the English one
C24_Witness ==
    /\ language = "fr" /\ apiURL = enAPIURL /\ pc = "print" /\ fetches > 0
    /\ mainJoke # <<>>
C24_WitnessEmpty ==
    /\ language = "" /\ apiURL = enAPIURL /\ pc = "print" /\ fetches > 0
C24_WitnessGerman ==
    /\ language = "de" /\ apiURL = deAPIURL /\ pc = "print" /\ queries # <<>>

\* ------------------------------------------------------------------ C25
\* C25: the existence check of Mode A counts only the records of the active
\* language: a fetched text goes on to the insertion exactly when no record
\* of the active language holds it, whatever is recorded under another
\* language, and the insertion that succeeds appends it under the active
\* language and returns it.
C25_ChecksActiveLanguageOnly ==
    [][/\ pc = "checkExists" =>
            LET recorded == \E k \in DOMAIN jokes :
                               jokes[k].joke = joke /\ jokes[k].language = language
            IN  /\ pc' = "insert" => ~recorded
                /\ (~recorded /\ fault' = "nil") => pc' = "insert"
       /\ (pc = "insert" /\ err' = [n |-> 0, msg |-> "nil", cause |-> "nil"]) =>
            /\ jokes' = Append(jokes, [id |-> Len(jokes) + 1, joke |-> joke,
                                       language |-> language, shown |-> TRUE])
            /\ mainJoke' = joke]_vars

\* a Mode A call returned a text that was recorded under the other language;
\* the text now exists once under each language
C25_Witness ==
    /\ language = "en" /\ pc = "print" /\ err # NotReturned /\ fetches > 0
    /\ \E k \in DOMAIN pre : pre[k].joke = mainJoke /\ pre[k].language = "de"
    /\ jokes[Len(jokes)].joke = mainJoke /\ jokes[Len(jokes)].language = "en"
    /\ \A l \in {"en", "de"} :
          Cardinality({k \in DOMAIN jokes :
                          jokes[k].joke = mainJoke /\ jokes[k].language = l}) = 1

C26_WitnessGaveUp ==
    /\ language # "de" /\ pc = "fallback" /\ fetches = 5
    /\ err.msg = "could not find a new joke after %d attempts" /\ err.n = 5

\* ------------------------------------------------------------------ C27
\* C27: the random selection has no single-row bias: every eligible record
\* is a possible result.  When getUnshownGermanJoke picks (the first time or
\* after the reset), each unshown "de" record can be the one picked; when
\* getRandomJokeFromDB picks, each record of the active language can be the
\* joke main goes on to print.
C27_EveryEligibleRecordPossible ==
    /\ pc = "pickUnshown" =>
          \A k \in DOMAIN jokes :
             (jokes[k].language = "de" /\ ~jokes[k].shown) =>
                ENABLED (PickUnshown /\ id' = jokes[k].id /\ joke' = jokes[k].joke)
    /\ pc = "pickAgain" =>
          \A k \in DOMAIN jokes :
             (jokes[k].language = "de" /\ ~jokes[k].shown) =>
                ENABLED (PickAgain /\ id' = jokes[k].id /\ joke' = jokes[k].joke)
    /\ pc = "fallback" =>
          \A k \in DOMAIN jokes :
             jokes[k].language = language =>
                ENABLED (Fallback /\ pc' = "print" /\ mainJoke' = jokes[k].joke)

\* of two unshown German records the pick took the second
C27_Witness ==
    /\ pc = "markShown"
    /\ \E k, m \in DOMAIN jokes :
          /\ k < m
          /\ jokes[k].language = "de" /\ ~jokes[k].shown
          /\ jokes[m].language = "de" /\ ~jokes[m].shown
          /\ id = jokes[m].id

\* of two unshown German records the pick took the first
C27_WitnessFirst ==
    /\ pc = "markShown"
    /\ \E k, m \in DOMAIN jokes :
          /\ k < m
          /\ jokes[k].language = "de" /\ ~jokes[k].shown
          /\ jokes[m].language = "de" /\ ~jokes[m].shown
          /\ id = jokes[k].id

\* of two records of the language the fallback took the second
C27_WitnessFallback ==
    /\ pc = "print" /\ fbPool # {} /\ fbErr = "nil"
    /\ \E k, m \in DOMAIN jokes :
          /\ k < m
          /\ jokes[k].language = language /\ jokes[m].language = language
          /\ jokes[k].joke # jokes[m].joke
          /\ mainJoke = jokes[m].joke

\* ------------------------------------------------------------------ C28
\* C28: every joke record has a non-empty text: whatever the source
\* responds, neither a Mode A acquisition nor a sync pass inserts an empty
\* text.
C28_NoEmptyText ==
    \A k \in DOMAIN jokes : jokes[k].joke # <<>>

\* the two ways of C28: a Mode A call recorded and returned the empty text;
\* a sync pass recorded it
C28_EmptyFromModeA ==
    /\ pc = "print" /\ language # "de" /\ fetches > 0 /\ mainJoke = <<>>
    /\ jokes # <<>> /\ jokes[Len(jokes)] = [id |-> Len(jokes), joke |-> <<>>,
                                            language |-> language, shown |-> TRUE]
C28_EmptyFromSync ==
    \E k \in DOMAIN jokes :
       jokes[k].joke = <<>> /\ jokes[k].language = "de" /\ ~jokes[k].shown

\* ------------------------------------------------------------------ C29
\* C29: getJoke dispatches on the content type of the response.  When it
\* contains "application/json" the result is the joke field of the parsed
\* record, or the failure "error parsing JSON" when the body is not
\* well-formed JSON, whatever the body would yield as a document; otherwise
\* the body goes through the extractor and the result is one element of the
\* extracted sequence, or the failure "no jokes found in markdown content"
\* when that sequence is empty.
C29_DispatchOnContentType ==
    (pc = "getJoke: returned" /\ resp # NoResp) =>
        IF \E k \in DOMAIN resp.contentType : resp.contentType[k] = "application/json"
        THEN IF resp.body.kind = "json" /\ resp.body.wellformed
             THEN /\ fault = "nil"
                  /\ joke = (IF resp.body.hasJoke THEN resp.body.joke ELSE <<>>)
             ELSE fault = "error parsing JSON" /\ joke = <<>>
        ELSE LET js == extractJokesFromMarkdown(bodyString(resp.body))
             IN  IF js = <<>>
                 THEN fault = "no jokes found in markdown content" /\ joke = <<>>
                 ELSE /\ fault = "nil"
                      /\ draw \in 0..(Len(js) - 1)
                      /\ joke = js[draw + 1]

\* the joke field of a record whose content type carries a charset
C29_Witness ==
    /\ pc = "getJoke: returned"
    /\ resp # NoResp
    /\ resp.contentType = <<"application/json", "charset=utf-8">>
    /\ resp.body.kind = "json" /\ resp.body.hasJoke
    /\ joke = resp.body.joke /\ fault = "nil"

\* the second joke of a document; a document sent as JSON; a record sent as
\* plain text
C29_WitnessDocument ==
    /\ pc = "getJoke: returned" /\ resp # NoResp
    /\ resp.contentType = <<"text/plain">>
    /\ resp.body = [kind |-> "doc", text |-> DocAB]
    /\ joke = TextB /\ fault = "nil"
C29_WitnessDocumentAsJSON ==
    /\ pc = "getJoke: returned" /\ resp # NoResp
    /\ resp.contentType = <<"application/json">>
    /\ resp.body = [kind |-> "doc", text |-> DocAB]
    /\ fault = "error parsing JSON"
C29_WitnessRecordAsText ==
    /\ pc = "getJoke: returned" /\ resp # NoResp
    /\ resp.contentType = <<>>
    /\ resp.body.kind = "json" /\ resp.body.hasJoke
    /\ fault = "no jokes found in markdown content"

\* ------------------------------------------------------------------ C30
\* The texts of the records of a language, in insertion order.
TextsInOrder(js, lang) ==
    LET rows == SelectSeq(js, LAMBDA r : r.language = lang)
    IN  [k \in DOMAIN rows |-> rows[k].joke]

\* C30: the records of a Mode A language are exactly the texts the
\* successful getFreshJoke calls returned, one per returned text, in the
\* order returned.  The records of the language change only when a Mode A
\* call for it returns successfully, and then by the returned text being
\* appended; every successful Mode A call appends the text it returns; no
\* text is recorded twice.  A call whose first fetched text has no record
\* returns that text, so a source of pairwise distinct texts t1, t2, ...
\* makes the k-th call return tk.
C30_RecordsAreReturnedTexts ==
    [][/\ TextsInOrder(jokes', "en") # TextsInOrder(jokes, "en") =>
            /\ language = "en" /\ pc = "insert" /\ pc' = "print"
            /\ err = NotReturned /\ err'.msg = "nil"
            /\ TextsInOrder(jokes', "en") = Append(TextsInOrder(jokes, "en"), mainJoke')
       /\ (language # "de" /\ err = NotReturned /\ err'.msg = "nil") =>
            /\ TextsInOrder(jokes', language) =
                  Append(TextsInOrder(jokes, language), mainJoke')
            /\ \A k \in DOMAIN TextsInOrder(jokes, language) :
                  TextsInOrder(jokes, language)[k] # mainJoke'
            /\ fetches = 1 => mainJoke' = joke
       /\ (language # "de" /\ pc = "checkExists" /\ fetches = 1 /\ fault' = "nil"
           /\ \A k \in DOMAIN jokes : jokes[k].joke # joke) => pc' = "insert"]_vars

\* two successful calls in a row: the records of the language are the text
\* the first returned, then the text the second returned
C30_Witness ==
    /\ language = "en" /\ pc = "print" /\ err # NotReturned /\ err.msg = "nil"
    /\ prev.ok /\ prev.language = "en" /\ prev.joke # mainJoke
    /\ TextsInOrder(jokes, "en") = <<prev.joke, mainJoke>>
    /\ fetches = 1

\* ------------------------------------------------------------------ C31
\* C31: Mode B never returns a shown joke while an unshown one exists.  The
\* record getUnshownGermanJoke has selected is a "de" record with shown = 0
\* when it is selected and until it is marked; the reset is executed only
\* when no "de" record with shown = 0 exists; a call that returns a joke
\* without a reset returns one that was unshown when the call began, and a
\* call that began with an unshown "de" record makes no reset.
C31_UnshownFirst ==
    /\ pc = "markShown" =>
          \E k \in DOMAIN jokes :
             /\ jokes[k].id = id /\ jokes[k].joke = joke
             /\ jokes[k].language = "de" /\ ~jokes[k].shown
    /\ pc = "resetShown" =>
          \A k \in DOMAIN jokes : jokes[k].language = "de" => jokes[k].shown
    /\ (language = "de" /\ pc \in {"print", "fallback"} /\ fbErr = "nil" /\ fbPool = {}
        /\ err # NotReturned) =>
          /\ (\E k \in DOMAIN pre : pre[k].language = "de" /\ ~pre[k].shown) =>
                \A q \in DOMAIN queries : queries[q] # "reset"
          /\ (err.msg = "nil" /\ \A q \in DOMAIN queries : queries[q] # "reset") =>
                \E k \in DOMAIN pre :
                   /\ pre[k].joke = mainJoke /\ pre[k].language = "de" /\ ~pre[k].shown
                   /\ jokes[k].shown

\* a joke a sync brought in the middle of a cycle is returned while the
\* joke shown before stays shown: no reset, no repeat
C31_Witness ==
    /\ language = "de" /\ pc = "print" /\ err # NotReturned /\ err.msg = "nil"
    /\ queries = <<"pick", "mark">>
    /\ \E k, m \in DOMAIN pre :
          /\ k < m
          /\ pre[k].language = "de" /\ pre[k].shown
          /\ pre[m].language = "de" /\ ~pre[m].shown
          /\ mainJoke = pre[m].joke /\ mainJoke # pre[k].joke
          /\ prev.ok /\ prev.joke = pre[k].joke

\* ------------------------------------------------------------------ C32
\* C32: over a fixed pool of N >= 1 "de" records that all start unshown,
\* after any number of consecutive successful Mode B calls the numbers of
\* times any two records were returned differ by at most 1, and a reset was
\* executed exactly on the calls numbered kN + 1 for k >= 1.
C32_EvenRotation ==
    LET pool == {k \in DOMAIN jokes : jokes[k].language = "de"}
        n == Cardinality(pool)
    IN  /\ \A a \in pool, b \in pool : ret.counts[a] <= ret.counts[b] + 1
        /\ ret.resets = {c \in 1..ret.calls : c > 1 /\ (c - 1) % n = 0}
        /\ \A a \in pool : ret.counts[a] >= ret.calls \div n

\* seven calls on three jokes: resets on the calls 4 and 7, the joke of the
\* seventh call returned three times, the others twice
C32_Witness ==
    /\ ret.calls = 7
    /\ Cardinality({k \in DOMAIN jokes : jokes[k].language = "de"}) = 3
    /\ ret.resets = {4, 7}
    /\ ret.counts[2] = 3 /\ ret.counts[1] = 2 /\ ret.counts[3] = 2

\* ------------------------------------------------------------------ C33
\* C33: language isolation of the acquisition.  No step of getFreshJoke, in
\* either mode, and no fallback pick changes a record of another language
\* than the active one; a record that is created has the active language;
\* a joke handed to main is the text of a record of the active language; the
\* reset changes "de" records only; Mode A changes no existing record, so
\* no shown flag; the fallback changes nothing in the store.
C33_LanguageIsolation ==
    [][/\ \A k \in DOMAIN jokes :
             /\ k \in DOMAIN jokes'
             /\ jokes[k].language # language => jokes'[k] = jokes[k]
             /\ language # "de" => jokes'[k] = jokes[k]
             /\ pc = "resetShown" =>
                   (jokes[k].language # "de" => jokes'[k].shown = jokes[k].shown)
       /\ \A k \in DOMAIN jokes' :
             k \notin DOMAIN jokes => jokes'[k].language = language
       /\ mainJoke' # mainJoke =>
             \E k \in DOMAIN jokes' :
                jokes'[k].joke = mainJoke' /\ jokes'[k].language = language
       /\ pc = "fallback" => jokes' = jokes]_vars

\* the reset has run on a store with a shown English record beside the
\* German ones: the German records are unshown, the English one is shown
C33_Witness ==
    /\ pc = "pickAgain"
    /\ \E k \in DOMAIN jokes : jokes[k].language = "en" /\ jokes[k].shown
    /\ \E k \in DOMAIN jokes : jokes[k].language = "de" /\ pre[k].shown /\ ~jokes[k].shown

\* the fallback of a run in an unknown language found nothing to pick among
\* the records of the two others; the fallback of an English run picked the
\* English record that stands between two German ones
C33_WitnessNothingForFr ==
    /\ language = "fr" /\ pc = "exited" /\ fbErr = NoRows /\ Len(jokes) = 3
C33_WitnessFallback ==
    /\ language = "en" /\ pc = "print" /\ fbErr = "nil" /\ fbPool # {}
    /\ Len(jokes) = 3 /\ jokes[1].language = "de" /\ jokes[3].language = "de"
    /\ mainJoke = jokes[2].joke /\ jokes[1].joke # mainJoke

\* ------------------------------------------------------------------ C34
\* C34: a sync pass only adds records.  After the sync of a run, whatever
\* it met, every record that existed before it is as it was (text, language
\* and shown flag, for every language), and every record it created has
\* language "de" and shown = 0.
C34_SyncOnlyAdds ==
    (pc = "getFreshJoke" /\ sync.read # "none") =>
        /\ Len(jokes) >= Len(sync.jokes)
        /\ \A k \in DOMAIN sync.jokes : jokes[k] = sync.jokes[k]
        /\ \A k \in DOMAIN jokes :
              k > Len(sync.jokes) => (jokes[k].language = "de" /\ ~jokes[k].shown)

\* a re-sync in the middle of a cycle: it added a joke, and the German joke
\* shown before is still shown, as is the English one
C34_Witness ==
    /\ pc = "getFreshJoke" /\ sync.read # "none" /\ sync.fetch = "done"
    /\ Len(jokes) > Len(sync.jokes)
    /\ \E k \in DOMAIN sync.jokes : jokes[k].language = "de" /\ jokes[k].shown
    /\ \E k \in DOMAIN sync.jokes : jokes[k].language = "en" /\ jokes[k].shown

\* ------------------------------------------------------------------ C35
\* A pass that downloaded a document with jokes in it, met no error on any
\* entry and wrote the timestamp.
CleanPass(p) ==
    /\ p.read = "ok" /\ p.fetch = "done" /\ p.entries # <<>>
    /\ \A k \in DOMAIN p.outcome : p.outcome[k] = "ok"
    /\ p.write = "ok"

\* C35: the ingestion is idempotent on table jokes: when two passes in a
\* row succeed on the same document, the second inserts no record and leaves
\* table jokes exactly as the first left it; only the sync timestamp may
\* change.
C35_SyncTwice ==
    (/\ runs = 2 /\ pc = "getFreshJoke"
     /\ CleanPass(arg.first) /\ sync.read # "none" /\ CleanPass(sync)
     /\ sync.entries = arg.first.entries)
    => (jokes = arg.jokes /\ sync.jokes = arg.jokes)

\* two passes on the document with two jokes, the first of which added
\* both to a store that held neither; the timestamp moved on
C35_Witness ==
    /\ runs = 2 /\ pc = "getFreshJoke"
    /\ CleanPass(arg.first) /\ sync.read # "none" /\ CleanPass(sync)
    /\ sync.entries = arg.first.entries
    /\ Len(sync.entries) = 2
    /\ Len(arg.jokes) = Len(arg.first.jokes) + 2
    /\ metadata # arg.metadata

\* the second pass on the same document inserted the joke whose INSERT had
\* failed in the first pass, which had returned no error either
C35_WitnessAfterSkippedEntry ==
    /\ runs = 2 /\ pc = "getFreshJoke"
    /\ arg.first.fetch = "done" /\ arg.first.write = "ok"
    /\ \E k \in DOMAIN arg.first.outcome : arg.first.outcome[k] = "insert error"
    /\ sync.read # "none" /\ CleanPass(sync) /\ sync.entries = arg.first.entries
    /\ Len(jokes) > Len(arg.jokes)

\* ------------------------------------------------------------------ C36
\* The records of a table that carry language "de", in table order.
GermanRecords(js) == SelectSeq(js, LAMBDA r : r.language = "de")

\* where a "de" run stands while its sync is still to come: nothing of the
\* acquisition has happened
SyncComesFirst ==
    /\ pc = "sync" =>
          (language = "de" /\ fetches = 0 /\ queries = <<>> /\ err = NotReturned
           /\ mainJoke = <<>>)
    /\ pc = "getFreshJoke" => (language = "de" <=> sync.read # "none")
    /\ language # "de" => (sync.read = "none" /\ syncErr = "nil")

\* the sync step never ends the run, a failed sync leaves the timestamp
\* alone (and, unless it got as far as the entries, the records too), and
\* the "de" run goes on to the pick among the unshown records
SyncNotFatal ==
    /\ pc = "sync" =>
          /\ pc' = "getFreshJoke" /\ exitCode' = NoExit
          /\ syncErr' # "nil" => metadata' = metadata
          /\ sync'.entries = <<>> => jokes' = jokes
    /\ (pc = "getFreshJoke" /\ language = "de") =>
          (pc' = "pickUnshown" /\ jokes' = jokes /\ exitCode' = NoExit)

\* inside a run with another language neither the metadata nor a "de"
\* record is written
NoSyncForOthers ==
    (language # "de" /\ runs' = runs) =>
        /\ metadata' = metadata
        /\ GermanRecords(jokes') = GermanRecords(jokes)
        /\ pc' # "sync"

\* C36: in a "de" run the staleness check comes before the acquisition, and
\* a failed sync (failed download, no entries, metadata read or write error)
\* does not end the run: it goes on to the pick among the records in the
\* store. A run with any other language attempts no sync and writes neither
\* "de" records nor the sync metadata.
C36_SyncBeforeAcquisition ==
    /\ []SyncComesFirst
    /\ [][SyncNotFatal /\ NoSyncForOthers]_vars

\* a "de" run whose sync failed on the download stands before getFreshJoke
\* with the records it had, not exited
C36_Witness ==
    /\ language = "de" /\ pc = "getFreshJoke"
    /\ syncErr = "error downloading German jokes"
    /\ exitCode = NoExit
    /\ jokes # <<>> /\ jokes = sync.jokes

\* an "en" run that returned a joke, with a sync timestamp of an earlier
\* "de" run in the store
C36_WitnessOther ==
    /\ language = "en" /\ pc = "print" /\ err = Nil
    /\ metadata # {}
    /\ GermanRecords(jokes) # <<>>

\* ------------------------------------------------------------------ C37
\* A run of the fetch loop in which nothing failed: getFreshJoke returned
\* a joke or the exhaustion error, and the query of the fallback, if there
\* was one, did not fail.
CleanModeARun ==
    /\ language # "de"
    /\ err = Nil \/ (err.msg = "could not find a new joke after %d attempts"
                     /\ err.cause = "duplicates")
    /\ fbErr # "store failure"

\* C37: a run of the fetch loop in which every fetch succeeds and no store
\* operation fails ends with exactly one joke printed and exit status 0:
\* when the five attempts are used up the store holds a record for the
\* language of the run, so the fallback does not fail for want of a row.
C37_CleanRunPrints ==
    /\ (CleanModeARun /\ pc = "fallback") =>
          \E k \in DOMAIN jokes : jokes[k].language = language
    /\ CleanModeARun => fbErr # "sql: no rows in result set"
    /\ (CleanModeARun /\ pc = "exited") =>
          /\ exitCode = <<0>>
          /\ Cardinality({k \in DOMAIN stdout : stdout[k].kind = "joke"}) = 1
          /\ stdout[Len(stdout)] = [kind |-> "joke", text |-> mainJoke]

\* an "en" run used up its five attempts on the one "en" record beside a
\* "de" record, and printed that record
C37_Witness ==
    /\ language = "en" /\ pc = "exited" /\ exitCode = <<0>>
    /\ err.msg = "could not find a new joke after %d attempts"
    /\ \E k \in DOMAIN jokes :
          /\ {m \in DOMAIN jokes : jokes[m].language = "en"} = {k}
          /\ stdout[Len(stdout)].text = jokes[k].joke
    /\ \E k \in DOMAIN jokes : jokes[k].language = "de"

\* an "en" run printed the joke of its first fetch
C37_WitnessFresh ==
    /\ language = "en" /\ pc = "exited" /\ exitCode = <<0>>
    /\ err = Nil
    /\ Cardinality({k \in DOMAIN stdout : stdout[k].kind = "joke"}) = 1

\* ------------------------------------------------------------------ C38
\* getFreshJoke has returned an error to main, in this run.
FreshJokeFailed == err # NotReturned /\ err # Nil

\* The texts the store holds for the language of the run.
StoredForRun == {jokes[k].joke : k \in {m \in DOMAIN jokes : jokes[m].language = language}}

\* C38: every failure of getFreshJoke (transport, parsing, store, no
\* German record to pick) leads main to the fallback and nowhere else.  The
\* run then prints one stored joke of its language and exits with status 0
\* exactly when the store holds a record for that language and the query of
\* the fallback succeeds; otherwise it exits with a non-zero status and
\* prints no joke.
C38_FallbackOnEveryFailure ==
    FreshJokeFailed =>
        /\ pc \in {"fallback", "print", "exited"}
        /\ pc = "fallback" => (exitCode = <<>> /\ mainJoke = <<>>)
        /\ pc \in {"print", "exited"} =>
              /\ fbPool = StoredForRun
              /\ fbErr = "nil" <=> pc = "print" \/ exitCode = <<0>>
              /\ fbErr = "nil" => (StoredForRun # {} /\ mainJoke \in StoredForRun)
              /\ StoredForRun = {} => fbErr # "nil"
        /\ pc = "exited" =>
              IF fbErr = "nil"
              THEN /\ exitCode = <<0>>
                   /\ {k \in DOMAIN stdout : stdout[k].kind = "joke"} = {Len(stdout)}
                   /\ stdout[Len(stdout)].text = mainJoke
              ELSE /\ exitCode = <<1>>
                   /\ {k \in DOMAIN stdout : stdout[k].kind = "joke"} = {}

\* a "de" run whose UPDATE ... SET shown = 1 failed has printed one of
\* the two German records of the store
C38_Witness ==
    /\ language = "de" /\ pc = "exited" /\ exitCode = <<0>>
    /\ err.msg = "error marking joke as shown"
    /\ Cardinality(StoredForRun) = 2
    /\ stdout[Len(stdout)].text \in StoredForRun

\* a "de" run on a store without German records has exited with status 1
C38_WitnessNoPool ==
    /\ language = "de" /\ pc = "exited" /\ exitCode = <<1>>
    /\ err.msg = "error getting joke after reset"
    /\ err.cause = "sql: no rows in result set"
    /\ fbErr = "sql: no rows in result set"
    /\ jokes # <<>>

\* an "en" run whose fetch failed has printed a stored joke
C38_WitnessTransport ==
    /\ language = "en" /\ pc = "exited" /\ exitCode = <<0>>
    /\ err.cause = "error sending request"

\* an "en" run whose response could not be parsed has failed on the
\* query of the fallback although the store holds an "en" record
C38_WitnessParse ==
    /\ language = "en" /\ pc = "exited" /\ exitCode = <<1>>
    /\ err.msg = "error fetching joke from API"
    /\ err.cause \notin {"error sending request", "error reading response body"}
    /\ fbErr = "store failure"
    /\ StoredForRun # {}

\* ------------------------------------------------------------------ C39
\* How often a statement occurs among the statements a call has issued.
Issued(q) == Cardinality({k \in DOMAIN queries : queries[k] = q})

\* getFreshJoke is running, or has returned and main has not looked yet.
CallOpen ==
    \/ pc \in {"getJoke", "checkExists", "insert", "pickUnshown", "resetShown",
               "pickAgain", "markShown"}
    \/ pc \in {"print", "fallback"} /\ err # NotReturned /\ fbErr = "nil" /\ fbPool = {}

\* the fetch loop: at most 5 fetches; an existence check follows a fetch
\* and is at most the fifth; at most one record is inserted
FetchLoopBounded ==
    (language # "de" /\ CallOpen) =>
        /\ fetches <= 5 /\ i <= 5 /\ i <= fetches /\ fetches <= i + 1
        /\ pc \in {"checkExists", "insert"} => (fetches = i + 1 /\ i < 5)
        /\ Len(jokes) <= Len(pre) + 1
        /\ pc \in {"getJoke", "checkExists", "insert"} => jokes = pre
        /\ queries = <<>>

\* the rotation: at most two picks, one reset and one mark, in that order,
\* and no fetch
RotationBounded ==
    (language = "de" /\ CallOpen) =>
        /\ Issued("pick") <= 2 /\ Issued("reset") <= 1 /\ Issued("mark") <= 1
        /\ Len(queries) <= 4
        /\ \A k \in DOMAIN queries :
              /\ queries[k] = "reset" => (k = 2 /\ queries[1] = "pick")
              /\ queries[k] = "mark" => (k = Len(queries) /\ queries[k - 1] = "pick")
        /\ fetches = 0 /\ i = 0
        /\ Len(jokes) = Len(pre)

\* C39: every getFreshJoke call terminates when each fetch and each store
\* operation returns.  The fetch loop makes at most 5 fetches and 5
\* existence checks and inserts at most once; the rotation makes at most 2
\* picks among the unshown records, 1 reset and 1 mark; there is no other
\* loop.
C39_CallTerminates ==
    /\ [](FetchLoopBounded /\ RotationBounded)
    /\ (pc = "getFreshJoke") ~> (err # NotReturned /\ pc \in {"print", "fallback"})

\* a call of the fetch loop has returned after its fifth fetch and fifth
\* existence check
C39_Witness ==
    /\ language = "en" /\ CallOpen /\ pc = "fallback"
    /\ fetches = 5 /\ i = 5
    /\ err.n = 5

\* a call of the rotation has returned after pick, reset, pick and mark
C39_WitnessRotation ==
    /\ language = "de" /\ CallOpen /\ pc = "print"
    /\ queries = <<"pick", "reset", "pick", "mark">>
====
